---------------------------- MODULE Spec2Model ----------------------------
(***************************************************************************)
(* Bounce Back: the headless solvability search (utils/levelSolvability),  *)
(* the real-time game loop and level pipeline of App.tsx, the SAT          *)
(* circle/rectangle test of utils/geometry and the menu's save/export.     *)
(*                                                                         *)
(* Numbers.  The program computes in IEEE doubles; the model computes in   *)
(* fixed point.  Lengths, positions and velocities are in tenths of a      *)
(* pixel (dpx, ten per pixel), unit vectors and sines in thousandths      *)
(* (MILLI), angles in hundredths of a radian, time in ticks of 1/60 s.     *)
(* Every product is rounded to the nearest unit (Rnd); square roots and    *)
(* sines are integer approximations (ISqrt, SinMilli).  All values stay    *)
(* below 2^31.                                                             *)
(***************************************************************************)
EXTENDS Integers, Sequences, FiniteSets, TLC

(***************************************************************************)
(* Fixed-point arithmetic                                                  *)
(***************************************************************************)
MILLI == 10 * 10 * 10

Abs(a) == IF a < 0 THEN -a ELSE a
Min(a, b) == IF a < b THEN a ELSE b
Max(a, b) == IF a > b THEN a ELSE b

\* a / b rounded to the nearest integer, halves away from zero (b > 0)
Rnd(a, b) == IF a >= 0 THEN (2 * a + b) \div (2 * b) ELSE -((2 * (-a) + b) \div (2 * b))

RECURSIVE SqrtSearch(_, _, _)
SqrtSearch(n, lo, hi) ==
    IF lo >= hi THEN lo
    ELSE LET mid == (lo + hi + 1) \div 2
         IN  IF mid * mid <= n THEN SqrtSearch(n, mid, hi) ELSE SqrtSearch(n, lo, mid - 1)

\* the nearer of the floor f of a square root of n and f + 1
SqrtNearest(n, f) == IF n - f * f > f THEN f + 1 ELSE f

\* Math.sqrt, rounded to the nearest integer (0 <= n < 2^30)
ISqrt(n) == SqrtNearest(n, SqrtSearch(n, 0, 32767))

\* Math.sin of an angle in centiradians, in thousandths (Bhaskara's rational
\* approximation on a half period of PI_C centiradians)
PI_C == 314
SinHalf(x) == Rnd(16 * x * (PI_C - x) * MILLI, 5 * PI_C * PI_C - 4 * x * (PI_C - x))
SinMilli(a) ==
    LET r == a % (2 * PI_C)
    IN  IF r <= PI_C THEN SinHalf(r) ELSE -SinHalf(r - PI_C)
CosMilli(a) == SinMilli(a + PI_C \div 2)

(***************************************************************************)
(* constants.ts                                                            *)
(***************************************************************************)
BASE_PLAYER_WIDTH == 400
BASE_PLAYER_HEIGHT == 100
BASE_BALL_RADIUS == 100
BASE_HOLE_RADIUS == 150
AIM_POWER_FACTOR == 100
MIN_AIM_VY == -1
BASE_MIN_BRICK_DIMENSION == 100
COLLISION_PUSH_PERCENT == 101
BASE_PLAYER_DEFAULT_BOTTOM_OFFSET == 600
BASE_HOLE_DEFAULT_Y == 1000
BASE_DEFAULT_MOVE_RANGE == 500
DEFAULT_MOVE_SPEED == 1000
BASE_AIM_LINE_LENGTH == 1000
FALLBACK_CANVAS_WIDTH == 8000
FALLBACK_CANVAS_HEIGHT == 6000
BALL_REST_GAP == 20
MAX_HISTORY == 50

(***************************************************************************)
(* utils/vector.ts                                                         *)
(***************************************************************************)
VecCreate(x, y) == [x |-> x, y |-> y]
VecSub(a, b) == [x |-> a.x - b.x, y |-> a.y - b.y]
VecDot(a, b) == a.x * b.x + a.y * b.y
VecLenSq(v) == v.x * v.x + v.y * v.y
VecPerp(v) == [x |-> -v.y, y |-> v.x]
\* Vec.normalize: a unit vector in thousandths; the zero vector stays zero
VecUnit(v, l) ==
    IF l = 0 THEN VecCreate(0, 0) ELSE VecCreate(Rnd(v.x * MILLI, l), Rnd(v.y * MILLI, l))
VecNormalize(v) == VecUnit(v, ISqrt(VecLenSq(v)))
\* variant: the component along the normal taken off once
VecReflectOnce(v, n) ==
    LET d == VecDot(v, n)
    IN  VecCreate(v.x - Rnd(n.x * d, MILLI * MILLI), v.y - Rnd(n.y * d, MILLI * MILLI))

\* Vec.reflect of engine/Vector.ts: d = dot * 2, then v - normal * d
Vec2Reflect(v, normal) ==
    LET d == VecDot(v, normal) * 2
    IN  VecCreate(v.x - Rnd(normal.x * d, MILLI * MILLI), v.y - Rnd(normal.y * d, MILLI * MILLI))

\* Vec.reflect(v, normal): v in dpx, normal in thousandths
VecReflect(v, n) ==
    LET d == VecDot(v, n)
    IN  VecCreate(v.x - Rnd(n.x * 2 * d, MILLI * MILLI), v.y - Rnd(n.y * 2 * d, MILLI * MILLI))

(***************************************************************************)
(* utils/geometry.ts                                                       *)
(***************************************************************************)
BrickAngle(brick) == brick.angle

\* the corner (px, py) of the unrotated rectangle, turned about (cx, cy)
RotatedCorner(cx, cy, px, py, c, s) ==
    VecCreate(cx + Rnd(px * c - py * s, MILLI), cy + Rnd(px * s + py * c, MILLI))

RectCorners(cx, cy, hw, hh, c, s) ==
    << RotatedCorner(cx, cy, -hw, -hh, c, s), RotatedCorner(cx, cy, hw, -hh, c, s),
       RotatedCorner(cx, cy, hw, hh, c, s), RotatedCorner(cx, cy, -hw, hh, c, s) >>

getRectVertices(brick) ==
    RectCorners(brick.x + Rnd(brick.width, 2), brick.y + Rnd(brick.height, 2),
                Rnd(brick.width, 2), Rnd(brick.height, 2),
                CosMilli(BrickAngle(brick)), SinMilli(BrickAngle(brick)))

\* axes.some(ax => Math.abs(Vec.dot(ax, normal)) > 0.999)
NearParallel(axes, n) == \E i \in 1..Len(axes) : Abs(VecDot(axes[i], n)) > 999 * MILLI

\* axes with `normal` pushed unless it is nearly parallel to one of them
WithAxis(axes, normal) == IF NearParallel(axes, normal) THEN axes ELSE Append(axes, normal)

RECURSIVE RectAxesFrom(_, _, _)
RectAxesFrom(vertices, i, axes) ==
    IF i > Len(vertices) THEN axes
    ELSE RectAxesFrom(vertices, i + 1,
             WithAxis(axes, VecNormalize(VecPerp(VecSub(vertices[(i % Len(vertices)) + 1],
                                                        vertices[i])))))

getRectAxes(vertices) == RectAxesFrom(vertices, 1, << >>)

RECURSIVE ProjFrom(_, _, _, _)
ProjFrom(vertices, axis, i, acc) ==
    IF i > Len(vertices) THEN acc
    ELSE LET p == VecDot(vertices[i], axis)
         IN  ProjFrom(vertices, axis, i + 1,
                      IF p < acc.min THEN [acc EXCEPT !.min = p]
                      ELSE IF p > acc.max THEN [acc EXCEPT !.max = p] ELSE acc)

projectShapeOntoAxis(vertices, axis) ==
    LET p0 == VecDot(vertices[1], axis)
    IN  ProjFrom(vertices, axis, 2, [min |-> p0, max |-> p0])

projectCircleOntoAxis(ball, axis) ==
    LET centerProj == VecDot(VecCreate(ball.x, ball.y), axis)
    IN  [min |-> centerProj - ball.radius * MILLI, max |-> centerProj + ball.radius * MILLI]

RECURSIVE ClosestVertexFrom(_, _, _, _)
ClosestVertexFrom(vertices, c, i, best) ==
    IF i > Len(vertices) THEN best
    ELSE ClosestVertexFrom(vertices, c, i + 1,
             IF VecLenSq(VecSub(c, vertices[i])) < VecLenSq(VecSub(c, best))
             THEN vertices[i] ELSE best)

NoCollision == [collision |-> FALSE, normal |-> VecCreate(0, 0), overlap |-> 0]

\* the overlap of two projections
AxisOverlap(rectProj, circleProj) ==
    Min(rectProj.max, circleProj.max) - Max(rectProj.min, circleProj.min)

\* the loop over the axes: the first separating axis ends it, otherwise the
\* axis of least overlap is kept (acc.overlap = -1 stands for Infinity)
RECURSIVE MtvFrom(_, _, _, _, _)
RECURSIVE MtvKeep(_, _, _, _, _, _)
MtvKeep(vertices, ball, axes, i, acc, overlap) ==
    IF overlap <= 0 THEN NoCollision
    ELSE MtvFrom(vertices, ball, axes, i + 1,
                 IF acc.overlap < 0 \/ overlap < acc.overlap
                 THEN [collision |-> TRUE, normal |-> axes[i], overlap |-> overlap]
                 ELSE acc)
MtvFrom(vertices, ball, axes, i, acc) ==
    IF i > Len(axes) THEN acc
    ELSE MtvKeep(vertices, ball, axes, i, acc,
                 AxisOverlap(projectShapeOntoAxis(vertices, axes[i]),
                             projectCircleOntoAxis(ball, axes[i])))

\* the edge axes plus the axis towards the closest vertex, unless that one is
\* degenerate or nearly parallel to an edge axis
WithVertexAxis(edgeAxes, axisToClosestVertex) ==
    IF VecLenSq(axisToClosestVertex) > 100 /\ ~NearParallel(edgeAxes, axisToClosestVertex)
    THEN Append(edgeAxes, axisToClosestVertex) ELSE edgeAxes

\* variant: the axis returned as it was found
OrientedAsFound(mtv, circleCenter, rectCenter) == mtv

\* the normal is made to point from the rectangle to the circle
Oriented(mtv, circleCenter, rectCenter) ==
    IF ~mtv.collision THEN NoCollision
    ELSE IF VecDot(mtv.normal, VecSub(circleCenter, rectCenter)) < 0
         THEN [mtv EXCEPT !.normal = VecCreate(-mtv.normal.x, -mtv.normal.y)]
         ELSE mtv

CollisionOf(rectVertices, ball, brick) ==
    Oriented(MtvFrom(rectVertices, ball,
                     WithVertexAxis(getRectAxes(rectVertices),
                         VecNormalize(VecSub(VecCreate(ball.x, ball.y),
                             ClosestVertexFrom(rectVertices, VecCreate(ball.x, ball.y), 2,
                                               rectVertices[1])))),
                     1, [collision |-> FALSE, normal |-> VecCreate(0, 0), overlap |-> -1]),
             VecCreate(ball.x, ball.y),
             VecCreate(brick.x + Rnd(brick.width, 2), brick.y + Rnd(brick.height, 2)))

\* overlap is in dpx * MILLI, normal in thousandths
checkCircleRectCollision(ball, brick) == CollisionOf(getRectVertices(brick), ball, brick)

doRectsOverlap(rect1, rect2) ==
    /\ rect1.x < rect2.x + rect2.width
    /\ rect1.x + rect1.width > rect2.x
    /\ rect1.y < rect2.y + rect2.height
    /\ rect1.y + rect1.height > rect2.y

(***************************************************************************)
(* Values of the level format.  A missing (undefined) number is Undefined; *)
(* a movementType is the string found in the level file ("null" for        *)
(* null).                                                                  *)
(***************************************************************************)
Undefined == -(999999)
IsDefined(v) == v # Undefined
\* a ?? b
Coalesce(a, b) == IF IsDefined(a) THEN a ELSE b
\* a || b on numbers: 0 and undefined are falsy
OrElse(a, b) == IF IsDefined(a) /\ a # 0 THEN a ELSE b

MT_NULL == "null"
MT_HORIZONTAL == "horizontal"
MT_VERTICAL == "vertical"

\* String.trim().toLowerCase() on the strings that occur in level files
TrimLower(s) ==
    CASE s = "Horizontal" -> "horizontal"
      [] s = " horizontal " -> "horizontal"
      [] s = "VERTICAL" -> "vertical"
      [] OTHER -> s

(***************************************************************************)
(* utils/levelSolvability.ts                                               *)
(***************************************************************************)
normalizeMovementType(value) ==
    IF value = MT_HORIZONTAL \/ value = MT_VERTICAL THEN value
    ELSE IF value = MT_NULL THEN MT_NULL
    ELSE LET normalized == TrimLower(value)
         IN  IF normalized = MT_HORIZONTAL THEN MT_HORIZONTAL
             ELSE IF normalized = MT_VERTICAL THEN MT_VERTICAL
             ELSE MT_NULL

\* variant: the comparison of clampLaunchVy turned round
clampLaunchVyInverted(vy) == IF vy < MIN_AIM_VY THEN MIN_AIM_VY ELSE vy

clampLaunchVy(vy) == IF vy > MIN_AIM_VY THEN MIN_AIM_VY ELSE vy

PreparedWidth(level) == Max(1, OrElse(level.savedCanvasWidth, FALLBACK_CANVAS_WIDTH))
PreparedHeight(level) == Max(1, OrElse(level.savedCanvasHeight, FALLBACK_CANVAS_HEIGHT))

\* the object the map callback of buildPreparedLevel returns for one brick
PreparedBrick(brick, width, height) ==
    [ x |-> Coalesce(brick.x, Rnd(width, 2) - 500),
      y |-> Coalesce(brick.y, Rnd(height, 2)),
      width |-> Max(BASE_MIN_BRICK_DIMENSION, Coalesce(brick.width, 1000)),
      height |-> Max(BASE_MIN_BRICK_DIMENSION, Coalesce(brick.height, 200)),
      angle |-> Coalesce(brick.angle, 0),
      isKillBrick |-> brick.isKillBrick,
      movementType |-> normalizeMovementType(brick.movementType),
      moveRange |-> Coalesce(brick.moveRange, BASE_DEFAULT_MOVE_RANGE),
      moveSpeed |-> Coalesce(brick.moveSpeed, DEFAULT_MOVE_SPEED),
      initialX |-> Coalesce(brick.initialX, Coalesce(brick.x, Rnd(width, 2) - 500)),
      initialY |-> Coalesce(brick.initialY, Coalesce(brick.y, Rnd(height, 2))) ]

\* Where the k-th prepared brick lives among the objects, the level's own
\* n bricks being objects 1..n: the spread {...brick, ...} makes a new object.
\* variant: the normalised fields written into the level's own brick
InPlaceBrickRef(k, n) == k

PreparedBrickRef(k, n) == n + k

\* buildPreparedLevel without its bricks (player, hole and ball start are
\* object literals of their own)
PreparedFrame(level) ==
    LET width == PreparedWidth(level)
        height == PreparedHeight(level)
        player == [ x |-> Coalesce(level.player.x, Rnd(width, 2) - Rnd(BASE_PLAYER_WIDTH, 2)),
                    y |-> Coalesce(level.player.y, height - BASE_PLAYER_DEFAULT_BOTTOM_OFFSET),
                    width |-> BASE_PLAYER_WIDTH, height |-> BASE_PLAYER_HEIGHT ]
    IN  [ width |-> width, height |-> height, player |-> player,
          hole |-> [ x |-> Coalesce(level.hole.x, Rnd(width, 2)),
                     y |-> Coalesce(level.hole.y, BASE_PLAYER_DEFAULT_BOTTOM_OFFSET),
                     radius |-> BASE_HOLE_RADIUS ],
          ballStart |-> [ x |-> player.x + Rnd(player.width, 2),
                          y |-> player.y - BASE_BALL_RADIUS - BALL_REST_GAP,
                          radius |-> BASE_BALL_RADIUS ] ]

\* the bricks buildPreparedLevel makes of a level, as values
PreparedBricksOf(lv) ==
    [k \in 1..Len(lv.bricks) |-> PreparedBrick(lv.bricks[k], PreparedWidth(lv), PreparedHeight(lv))]

\* Math.sin(timeSeconds * moveSpeed) * moveRange, time in ticks of 1/60 s and
\* moveSpeed in thousandths of a radian per second
MoveOffset(brick, timeTicks) ==
    Rnd(brick.moveRange * SinMilli(Rnd(timeTicks * brick.moveSpeed, 600)), MILLI)

getBrickAtTime(brick, timeTicks) ==
    IF brick.movementType = MT_NULL \/ ~IsDefined(brick.initialX) \/ ~IsDefined(brick.initialY)
    THEN brick
    ELSE IF brick.movementType = MT_VERTICAL
         THEN [brick EXCEPT !.x = brick.initialX, !.y = brick.initialY + MoveOffset(brick, timeTicks)]
         ELSE [brick EXCEPT !.x = brick.initialX + MoveOffset(brick, timeTicks), !.y = brick.initialY]

\* pushVector = normal * overlap * COLLISION_PUSH_FACTOR, then the reflection
Bounce(ball, collision) ==
    LET amount == Rnd(collision.overlap * COLLISION_PUSH_PERCENT, 100)
        reflectedVel == VecReflect(VecCreate(ball.vx, ball.vy), collision.normal)
    IN  [ball EXCEPT !.x = ball.x + Rnd(collision.normal.x * amount, MILLI * MILLI),
                     !.y = ball.y + Rnd(collision.normal.y * amount, MILLI * MILLI),
                     !.vx = reflectedVel.x, !.vy = reflectedVel.y]

\* distToHoleSq < radiiSumSq * 0.8
HoleReached(ball, hole) ==
    LET distToHoleSq == VecLenSq(VecSub(VecCreate(ball.x, ball.y), VecCreate(hole.x, hole.y)))
        radiiSumSq == (ball.radius + hole.radius) * (ball.radius + hole.radius)
    IN  distToHoleSq * 10 < radiiSumSq * 8

\* Hole.containsBall: dist < this.radius - ballRadius * 0.5, the distance
\* compared by its square
containsBall(hole, ballPosition, ballRadius) ==
    LET distSq == VecLenSq(VecSub(VecCreate(hole.x, hole.y), ballPosition))
    IN  /\ 2 * hole.radius - ballRadius > 0
        /\ 4 * distSq < (2 * hole.radius - ballRadius) * (2 * hole.radius - ballRadius)

BallRect(ball) ==
    [x |-> ball.x - ball.radius, y |-> ball.y - ball.radius,
     width |-> ball.radius * 2, height |-> ball.radius * 2]

\* simulateShot, lines 203-223: the loop over the bricks.  acc.ball is the
\* ball as pushed and reflected so far, acc.events what happened to it.
RECURSIVE SimBrickLoop(_, _, _, _)
RECURSIVE SimBrickHit(_, _, _, _, _, _)
SimBrickHit(bricks, timeTicks, k, acc, brick, collision) ==
    IF ~collision.collision THEN SimBrickLoop(bricks, timeTicks, k + 1, acc)
    ELSE IF brick.isKillBrick
         THEN [acc EXCEPT !.events = Append(acc.events, "kill"), !.dead = TRUE]
         ELSE IF collision.overlap # 0
              THEN SimBrickLoop(bricks, timeTicks, k + 1,
                       [acc EXCEPT !.ball = Bounce(acc.ball, collision),
                                   !.events = Append(acc.events, "bounce")])
              ELSE SimBrickLoop(bricks, timeTicks, k + 1, acc)
SimBrickLoop(bricks, timeTicks, k, acc) ==
    IF k > Len(bricks) THEN acc
    ELSE SimBrickHit(bricks, timeTicks, k, acc, getBrickAtTime(bricks[k], timeTicks),
                     checkCircleRectCollision(acc.ball, getBrickAtTime(bricks[k], timeTicks)))

\* whether the ball overlaps some kill brick placed at timeTicks
OverlapsKillBrick(bricks, b, timeTicks) ==
    \E k \in 1..Len(bricks) :
        /\ bricks[k].isKillBrick
        /\ checkCircleRectCollision(b, getBrickAtTime(bricks[k], timeTicks)).collision

\* what one frame reports: the ball after it, how the shot stands ("fly",
\* "fail", "win"), what happened to the ball, and whether the ball as moved
\* (before any push) overlapped a kill brick
TickOf(b, status, events, movedKill) ==
    [ball |-> b, status |-> status, events |-> events, movedKill |-> movedKill]

\* variant: the launcher body is not tested
SimAfterBricksNoBody(p, hit, movedKill) ==
    IF hit.dead THEN TickOf(hit.ball, "fail", hit.events, movedKill)
    ELSE IF HoleReached(hit.ball, p.hole)
    THEN TickOf(hit.ball, "win", Append(hit.events, "goal"), movedKill)
    ELSE TickOf(hit.ball, "fly", hit.events, movedKill)

\* lines 225-247: the launcher body and the hole, after the brick loop
SimAfterBricks(p, hit, movedKill) ==
    IF hit.dead THEN TickOf(hit.ball, "fail", hit.events, movedKill)
    ELSE IF doRectsOverlap(BallRect(hit.ball), p.player)
    THEN TickOf(hit.ball, "fail", Append(hit.events, "player"), movedKill)
    ELSE IF HoleReached(hit.ball, p.hole)
    THEN TickOf(hit.ball, "win", Append(hit.events, "goal"), movedKill)
    ELSE TickOf(hit.ball, "fly", hit.events, movedKill)

\* lines 191-223: the walls, the floor and the bricks, for the moved ball
SimMoved(p, bricks, moved, timeTicks, movedKill) ==
    IF moved.x - moved.radius < 0 \/ moved.x + moved.radius > p.width \/ moved.y - moved.radius < 0
    THEN TickOf(moved, "fail", <<"wall">>, movedKill)
    ELSE IF moved.y > p.height + moved.radius * 2
    THEN TickOf(moved, "fail", <<"fell">>, movedKill)
    ELSE SimAfterBricks(p, SimBrickLoop(bricks, timeTicks, 1,
                               [ball |-> moved, events |-> << >>, dead |-> FALSE]),
                        movedKill)

\* lines 188-189
MoveBall(b) == [b EXCEPT !.x = b.x + b.vx, !.y = b.y + b.vy]

\* One iteration of the frame loop of simulateShot (lines 186-247) on the
\* prepared level p with bricks `bricks`
SimFrame(p, bricks, b, timeTicks) ==
    SimMoved(p, bricks, MoveBall(b), timeTicks, OverlapsKillBrick(bricks, MoveBall(b), timeTicks))

ShotBall(p, vx, vy) ==
    [x |-> p.ballStart.x, y |-> p.ballStart.y, radius |-> p.ballStart.radius, vx |-> vx, vy |-> vy]

\* findSolvableShot, lines 262-264: the launch vy of a vx
LaunchVy(clampedVx) ==
    clampLaunchVy(-ISqrt(Max(0, AIM_POWER_FACTOR * AIM_POWER_FACTOR - clampedVx * clampedVx)))

\* line 266: Math.abs(clampedVx) <= 0.01 && Math.abs(clampedVy) <= 0.01
NearZeroShot(vx, vy) == Abs(vx) * 10 <= 1 /\ Abs(vy) * 10 <= 1

\* variant: the vx loop stopping short of AIM_POWER_FACTOR
VxLoopStrict(vx) == vx < AIM_POWER_FACTOR

\* line 260: the test and the step of the vx loop
VxLoopContinues(vx) == vx <= AIM_POWER_FACTOR
NextVx(vx, vxStep) == vx + vxStep

\* line 271: (phaseDurationSeconds * i) / phaseSamples, in ticks
PhaseOffset(opts, i) == Rnd(opts.phaseDuration * i, opts.phaseSamples)

(***************************************************************************)
(* State of a run of findSolvableShot.  The bricks are objects: objs maps  *)
(* a reference to the brick stored there, the n bricks of the level given  *)
(* to the call being objects 1..n.                                         *)
(***************************************************************************)
VARIABLES
    level,      \* the LevelData value the caller passed
    opts,       \* the options of the call
    objs,       \* the brick objects
    prepared,   \* buildPreparedLevel's result; its bricks are references
    pc,         \* "idle", "vx", "phase", "sim", "done"
    vx,         \* the loop variable of the vx loop
    i,          \* the loop variable of the phase loop
    frame,      \* the loop variable of simulateShot
    ball,       \* simulateShot's ball
    tick,       \* what the last frame of simulateShot did
    results     \* the values returned by the calls so far

solverVars == << level, opts, objs, prepared, pc, vx, i, frame, ball, tick, results >>

(***************************************************************************)
(* State of the application (App.tsx, GameMenu.tsx, GameCanvas.tsx).  The  *)
(* canvas has the reference size, FALLBACK_CANVAS_WIDTH by                 *)
(* FALLBACK_CANVAS_HEIGHT, so every scale factor of loadLevelData and of   *)
(* saveCurrentLevelData is 1.                                              *)
(***************************************************************************)
VARIABLES
    levels,       \* the levels state: a sequence of LevelData
    gameState,    \* mode, currentLevelIndex, player, hole, ball, bricks
    aim,          \* editorState.aim: active, dx, dy
    storage,      \* the levels last written to localStorage
    downloaded,   \* the levels last downloaded as JSON (at most one)
    clock,        \* Date.now(), in ticks of 1/60 s
    pendingLoad,  \* the level indices that setTimeout callbacks are about to load, oldest first
    playTick,     \* what the last play tick of runGameLoop did to the ball
    shadow,       \* simulateShot run beside the play, tick for tick
    history,      \* editorState.history: the snapshots undo and redo load
    historyIndex  \* editorState.historyIndex, from 0, or -1

appVars == << levels, gameState, aim, storage, downloaded, clock, pendingLoad, playTick, shadow,
              history, historyIndex >>

(***************************************************************************)
(* A pure function put to the test: the input drawn, and what it returned  *)
(***************************************************************************)
VARIABLES
    probe,     \* the arguments of one call of checkCircleRectCollision or Vec.reflect
    answer,    \* what the call returned
    game       \* the fields of the Game object of the pointer-driven engine

vars == << solverVars, appVars, probe, answer, game >>

\* variant: a brick clock that is not reset between calls
SimTimeDrifting(phaseOffsetTicks, frameNo) == phaseOffsetTicks + frameNo + 160 * Len(results)

\* the brick time of a frame of a shot: phaseOffsetSeconds + frame / 60
SimTime(phaseOffsetTicks, frameNo) == phaseOffsetTicks + frameNo

\* simulateShot as a function: TRUE iff the shot reaches the hole
RECURSIVE SimulateFrom(_, _, _, _, _, _)
RECURSIVE SimulateOn(_, _, _, _, _, _)
SimulateOn(p, bricks, r, phaseOffsetTicks, frameNo, maxFrames) ==
    IF r.status = "win" THEN TRUE
    ELSE IF r.status = "fail" THEN FALSE
    ELSE SimulateFrom(p, bricks, r.ball, phaseOffsetTicks, frameNo + 1, maxFrames)
SimulateFrom(p, bricks, b, phaseOffsetTicks, frameNo, maxFrames) ==
    IF frameNo >= maxFrames THEN FALSE
    ELSE SimulateOn(p, bricks, SimFrame(p, bricks, b, SimTime(phaseOffsetTicks, frameNo)),
                    phaseOffsetTicks, frameNo, maxFrames)

simulateShot(p, bricks, shotVx, shotVy, phaseOffsetTicks, maxFrames) ==
    SimulateFrom(p, bricks, ShotBall(p, shotVx, shotVy), phaseOffsetTicks, 0, maxFrames)

(***************************************************************************)
(* Levels and options the search is run on (800 x 600 px, the reference    *)
(* size)                                                                   *)
(***************************************************************************)
RawBrick(x, y, w, h, kill) ==
    [ x |-> x, y |-> y, width |-> w, height |-> h, angle |-> 0, isKillBrick |-> kill,
      movementType |-> MT_NULL, moveRange |-> Undefined, moveSpeed |-> Undefined,
      initialX |-> x, initialY |-> y ]

LevelOf(playerX, playerY, holeX, holeY, bricks) ==
    [ savedCanvasWidth |-> FALLBACK_CANVAS_WIDTH, savedCanvasHeight |-> FALLBACK_CANVAS_HEIGHT,
      player |-> [x |-> playerX, y |-> playerY], hole |-> [x |-> holeX, y |-> holeY],
      bricks |-> bricks ]

\* the launcher stands at (3800, 2400), its resting ball at (4000, 2280)
LedgeBrick == RawBrick(3000, 2160, 2000, 100, FALSE)
UpperLedgeBrick == RawBrick(3000, 2060, 2000, 100, FALSE)
LowKillWall == RawBrick(0, 2180, 8000, 100, TRUE)
MidKillWall == RawBrick(0, 1700, 8000, 100, TRUE)
\* a lethal gate sweeping under the hole; its type is spelt as a level file
\* may spell it, its height is below the minimum, its anchor is left out
SweepingGate ==
    [ RawBrick(3000, 1700, 2000, 50, TRUE) EXCEPT
        !.movementType = "Horizontal", !.moveRange = 3000, !.moveSpeed = 1500,
        !.initialX = Undefined, !.initialY = Undefined ]

EmptyLevel == LevelOf(3800, 2400, 4000, 1300, << >>)
HoleRightLevel == LevelOf(3800, 2400, 6000, 2260, << >>)
MidWallLevel == LevelOf(3800, 2400, 4000, 1300, << MidKillWall >>)
LedgeWallLevel == LevelOf(3800, 2400, 4000, 1300, << LedgeBrick, LowKillWall >>)
WallLedgeLevel == LevelOf(3800, 2400, 4000, 1300, << LowKillWall, LedgeBrick >>)
TwoLedgeLevel == LevelOf(3800, 2400, 4000, 1300, << LedgeBrick, UpperLedgeBrick >>)
GateLevel == LevelOf(3800, 2400, 4000, 1300, << SweepingGate >>)
\* a lethal brick lying across the lower edge of the hole's capture zone
HoleGuard == RawBrick(3500, 1380, 1000, 100, TRUE)
GuardedHoleLevel == LevelOf(3800, 2400, 4000, 1300, << HoleGuard >>)
\* a plain brick over the launcher: a shot straight up comes back down
CeilingBrick == RawBrick(3000, 1700, 2000, 100, FALSE)
CeilingLevel == LevelOf(3800, 2400, 4000, 1300, << CeilingBrick >>)

\* a thin plain brick just above the resting ball
LedgeLevel == LevelOf(3800, 2400, 4000, 1300, << LedgeBrick >>)

\* the launcher in the lower left corner and a plain post beside the left
\* wall, a ball's width from it
WallPost == RawBrick(190, 1890, 100, 200, FALSE)
WallPostLevel == LevelOf(0, 2400, 4000, 1300, << WallPost >>)

LevelPool == { EmptyLevel, HoleRightLevel, MidWallLevel, LedgeWallLevel, WallLedgeLevel,
               TwoLedgeLevel, GateLevel, GuardedHoleLevel, CeilingLevel, LedgeLevel,
               WallPostLevel }

\* options?.x ?? default, lines 254-257
DefaultOptions == [maxFrames |-> 1200, vxStep |-> 4, phaseSamples |-> 12, phaseDuration |-> 480]

MaxFrames == 40
CoarseOptions ==
    { [maxFrames |-> MaxFrames, vxStep |-> s, phaseSamples |-> n, phaseDuration |-> 480] :
        s \in {0, 25, 50}, n \in {1, 3} }

OptionsFor(lv) == IF lv = EmptyLevel THEN CoarseOptions \cup {DefaultOptions} ELSE CoarseOptions

MaxCalls == 2

\* the sweep is followed down to this vx when vxStep is negative
MaxVx == 200

(***************************************************************************)
(* findSolvableShot, step by step                                          *)
(***************************************************************************)
NoTick == [status |-> "none", events |-> << >>, movedKill |-> FALSE]
NoBall == [x |-> 0, y |-> 0, radius |-> 0, vx |-> 0, vy |-> 0]
Unsolvable == [solvable |-> FALSE]

\* the bricks of the prepared level
PreparedBricks == [k \in 1..Len(prepared.bricks) |-> objs[prepared.bricks[k]]]
\* the bricks of the level object the caller holds
InputBricks == [k \in 1..Len(level.bricks) |-> objs[k]]

\* lines 254-258: buildPreparedLevel on a level whose bricks are `bricks`
Enter(lv, o, bricks) ==
    LET n == Len(bricks)
        p == PreparedFrame(lv)
        refs == [k \in 1..n |-> PreparedBrickRef(k, n)]
        written == { refs[k] : k \in 1..n }
    IN  /\ level' = lv
        /\ opts' = o
        /\ objs' = [ r \in (1..n) \cup written |->
                       IF r \in written
                       THEN PreparedBrick(bricks[CHOOSE k \in 1..n : refs[k] = r], p.width, p.height)
                       ELSE bricks[r] ]
        /\ prepared' = [ width |-> p.width, height |-> p.height, player |-> p.player,
                         hole |-> p.hole, ballStart |-> p.ballStart, bricks |-> refs ]
        /\ vx' = -AIM_POWER_FACTOR
        /\ i' = 0
        /\ frame' = 0
        /\ ball' = NoBall
        /\ tick' = NoTick
        /\ pc' = "vx"

Call ==
    /\ pc = "idle"
    /\ \E lv \in LevelPool : \E o \in OptionsFor(lv) : Enter(lv, o, lv.bricks)
    /\ UNCHANGED << results, appVars, probe, answer, game >>

\* the caller calls again with the level object and the options it holds
CallAgain ==
    /\ pc = "done"
    /\ Len(results) < MaxCalls
    /\ Enter(level, opts, InputBricks)
    /\ UNCHANGED << results, appVars, probe, answer, game >>

\* line 260-268: the test of the vx loop and the head of its body
VxLoop ==
    /\ pc = "vx"
    /\ vx >= -MaxVx
    /\ IF ~VxLoopContinues(vx)
       THEN /\ results' = Append(results, Unsolvable)
            /\ pc' = "done"
            /\ UNCHANGED << vx, i >>
       ELSE IF NearZeroShot(vx, LaunchVy(vx))
       THEN /\ vx' = NextVx(vx, opts.vxStep)
            /\ UNCHANGED << pc, i, results >>
       ELSE /\ i' = 0
            /\ pc' = "phase"
            /\ UNCHANGED << vx, results >>
    /\ UNCHANGED << level, opts, objs, prepared, frame, ball, tick, appVars, probe, answer, game >>

\* line 270: the test of the phase loop; lines 177-183: the ball of the shot
PhaseLoop ==
    /\ pc = "phase"
    /\ IF i < opts.phaseSamples
       THEN /\ ball' = ShotBall(prepared, vx, LaunchVy(vx))
            /\ frame' = 0
            /\ pc' = "sim"
            /\ UNCHANGED vx
       ELSE /\ vx' = NextVx(vx, opts.vxStep)
            /\ pc' = "vx"
            /\ UNCHANGED << ball, frame >>
    /\ UNCHANGED << level, opts, objs, prepared, i, tick, results, appVars, probe, answer, game >>

\* lines 273-282, and the loop of simulateShot going on, given what the
\* frame did
FrameDone(r) ==
    /\ ball' = r.ball
    /\ tick' = [status |-> r.status, events |-> r.events, movedKill |-> r.movedKill]
    /\ IF r.status = "win"
       THEN /\ results' = Append(results,
                            [solvable |-> TRUE,
                             shot |-> [vx |-> vx, vy |-> LaunchVy(vx),
                                       phaseOffset |-> PhaseOffset(opts, i)]])
            /\ pc' = "done"
            /\ UNCHANGED << i, frame >>
       ELSE IF r.status = "fail"
       THEN /\ i' = i + 1
            /\ pc' = "phase"
            /\ UNCHANGED << frame, results >>
       ELSE /\ frame' = frame + 1
            /\ UNCHANGED << i, pc, results >>

\* lines 185-250: one iteration of the frame loop
Frame ==
    /\ pc = "sim"
    /\ IF frame >= opts.maxFrames
       THEN /\ i' = i + 1
            /\ pc' = "phase"
            /\ UNCHANGED << ball, frame, tick, results >>
       ELSE FrameDone(SimFrame(prepared, PreparedBricks, ball, SimTime(PhaseOffset(opts, i), frame)))
    /\ UNCHANGED << level, opts, objs, prepared, vx, appVars, probe, answer, game >>

SolverInit ==
    /\ level = EmptyLevel
    /\ opts = DefaultOptions
    /\ objs = << >>
    /\ prepared = [PreparedFrame(EmptyLevel) EXCEPT !.player = @] @@ [bricks |-> << >>]
    /\ pc = "idle"
    /\ vx = 0
    /\ i = 0
    /\ frame = 0
    /\ ball = NoBall
    /\ tick = NoTick
    /\ results = << >>

(***************************************************************************)
(* App.tsx: levels, loading, saving                                        *)
(***************************************************************************)
\* validateAndDefaultLevel, lines 156-180, on a brick that has x, y, width
\* and height
ValidatedBrick(brick) ==
    [ x |-> brick.x, y |-> brick.y, width |-> brick.width, height |-> brick.height,
      angle |-> brick.angle,
      isKillBrick |-> brick.isKillBrick,
      movementType |-> brick.movementType,
      moveRange |-> Coalesce(brick.moveRange, BASE_DEFAULT_MOVE_RANGE),
      moveSpeed |-> Coalesce(brick.moveSpeed, DEFAULT_MOVE_SPEED),
      initialX |-> IF brick.movementType # MT_NULL
                      /\ (~IsDefined(brick.initialX) \/ ~IsDefined(brick.initialY))
                   THEN brick.x ELSE brick.initialX,
      initialY |-> IF brick.movementType # MT_NULL
                      /\ (~IsDefined(brick.initialX) \/ ~IsDefined(brick.initialY))
                   THEN brick.y ELSE brick.initialY,
      baseWidth |-> brick.width, baseHeight |-> brick.height ]

\* validateAndDefaultLevel on a level whose player and hole are in bounds
validateAndDefaultLevel(lvl) ==
    [ savedCanvasWidth |-> OrElse(lvl.savedCanvasWidth, FALLBACK_CANVAS_WIDTH),
      savedCanvasHeight |-> OrElse(lvl.savedCanvasHeight, FALLBACK_CANVAS_HEIGHT),
      player |-> lvl.player, hole |-> lvl.hole,
      bricks |-> [k \in 1..Len(lvl.bricks) |-> ValidatedBrick(lvl.bricks[k])] ]

\* variant: a reset that leaves onPlayer as it was
resetBallOffPlayer(gs) ==
    [gs.ball EXCEPT !.x = gs.player.x + Rnd(gs.player.width, 2),
                    !.y = gs.player.y - gs.ball.radius - BALL_REST_GAP,
                    !.vx = 0, !.vy = 0, !.fired = FALSE]

\* resetBall, lines 186-200, at scale 1
resetBall(gs) ==
    [gs.ball EXCEPT !.x = gs.player.x + Rnd(gs.player.width, 2),
                    !.y = gs.player.y - gs.ball.radius - BALL_REST_GAP,
                    !.vx = 0, !.vy = 0, !.fired = FALSE, !.onPlayer = TRUE]

\* loadLevelData, lines 303-330: a brick of the game state
LoadedBrick(brickData) ==
    [brickData EXCEPT
        !.width = Max(BASE_MIN_BRICK_DIMENSION, brickData.baseWidth),
        !.height = Max(BASE_MIN_BRICK_DIMENSION, brickData.baseHeight),
        !.initialX = IF IsDefined(brickData.initialX) THEN brickData.initialX ELSE brickData.x,
        !.initialY = IF IsDefined(brickData.initialY) THEN brickData.initialY ELSE brickData.y]

\* loadLevelData, lines 216-334: the game state it sets
LoadedGameState(gs, levelIndex, levelData) ==
    [ mode |-> gs.mode,
      currentLevelIndex |-> levelIndex,
      player |-> [ x |-> OrElse(levelData.player.x, Rnd(levelData.savedCanvasWidth, 2)),
                   y |-> OrElse(levelData.player.y,
                                levelData.savedCanvasHeight - BASE_PLAYER_DEFAULT_BOTTOM_OFFSET),
                   width |-> BASE_PLAYER_WIDTH, height |-> BASE_PLAYER_HEIGHT ],
      hole |-> [ x |-> OrElse(levelData.hole.x, Rnd(levelData.savedCanvasWidth, 2)),
                 y |-> OrElse(levelData.hole.y, BASE_HOLE_DEFAULT_Y),
                 radius |-> BASE_HOLE_RADIUS ],
      ball |-> [ x |-> OrElse(levelData.player.x, Rnd(levelData.savedCanvasWidth, 2))
                         + Rnd(BASE_PLAYER_WIDTH, 2),
                 y |-> OrElse(levelData.player.y,
                              levelData.savedCanvasHeight - BASE_PLAYER_DEFAULT_BOTTOM_OFFSET)
                         - BASE_BALL_RADIUS - BALL_REST_GAP,
                 radius |-> BASE_BALL_RADIUS, vx |-> 0, vy |-> 0,
                 fired |-> FALSE, onPlayer |-> TRUE ],
      bricks |-> [k \in 1..Len(levelData.bricks) |-> LoadedBrick(levelData.bricks[k])] ]

\* saveCurrentLevelData, lines 716-745: a brick of the level written
SavedBrick(brick) ==
    [brick EXCEPT !.x = Coalesce(brick.initialX, brick.x),
                  !.y = Coalesce(brick.initialY, brick.y),
                  !.width = brick.baseWidth, !.height = brick.baseHeight]

\* saveCurrentLevelData, lines 710-754: updatedLevelData
SavedLevel(gs) ==
    [ savedCanvasWidth |-> FALLBACK_CANVAS_WIDTH,
      savedCanvasHeight |-> FALLBACK_CANVAS_HEIGHT,
      player |-> [x |-> gs.player.x, y |-> gs.player.y],
      hole |-> [x |-> gs.hole.x, y |-> gs.hole.y],
      bricks |-> [k \in 1..Len(gs.bricks) |-> SavedBrick(gs.bricks[k])] ]

\* newLevels of saveCurrentLevelData
LevelsWithSaved(lvls, gs) == [lvls EXCEPT ![gs.currentLevelIndex + 1] = SavedLevel(gs)]

NoPlayTick == [status |-> "none", events |-> << >>]
NoShadow == [status |-> "none", ball |-> NoBall]

\* getCurrentHistorySnapshot, lines 434-449, at scale 1
getCurrentHistorySnapshot(gs) == [bricks |-> gs.bricks, player |-> gs.player, hole |-> gs.hole]

\* lines 465-475: the history with newHistoryEntry pushed after index idx
ShiftedHistory(newHistory) ==
    [history |-> IF Len(newHistory) > MAX_HISTORY THEN Tail(newHistory) ELSE newHistory,
     historyIndex |-> (IF Len(newHistory) > MAX_HISTORY THEN Len(newHistory) - 1
                       ELSE Len(newHistory)) - 1]
\* variant: the entry pushed after everything the history holds
PushedHistoryKeepingRedo(h, idx, newHistoryEntry) ==
    ShiftedHistory(Append(h, newHistoryEntry))

PushedHistory(h, idx, newHistoryEntry) ==
    ShiftedHistory(Append(SubSeq(h, 1, idx + 1), newHistoryEntry))

\* saveHistoryState, lines 451-477, outside a nudge; e is history and index
saveHistoryState(forceSave, gs, e) ==
    IF gs.mode # "editor" THEN e
    ELSE IF /\ ~forceSave
            /\ e.historyIndex >= 0
            /\ Len(e.history) > 0
            /\ getCurrentHistorySnapshot(gs) = e.history[e.historyIndex + 1]
    THEN e
    ELSE PushedHistory(e.history, e.historyIndex, getCurrentHistorySnapshot(gs))

\* the effect of lines 479-489, run after a render with game state gs
HistoryEffect(lvls, gs, e) ==
    IF /\ Len(lvls) > 0
       /\ Len(gs.bricks) > 0
       /\ gs.mode = "editor"
       /\ \/ Len(e.history) = 0
          \/ e.historyIndex < 0
          \/ getCurrentHistorySnapshot(gs) # e.history[e.historyIndex + 1]
    THEN saveHistoryState(TRUE, gs, e)
    ELSE e

\* the level files the application starts from
StartLevels == << validateAndDefaultLevel(LedgeWallLevel), validateAndDefaultLevel(GateLevel) >>

AppInit ==
    /\ levels = StartLevels
    /\ gameState = LoadedGameState([mode |-> "editor"], 0, StartLevels[1])
    /\ aim = [active |-> FALSE, dx |-> 0, dy |-> 0]
    /\ storage = StartLevels
    /\ downloaded = {}
    /\ clock = PhaseOffset(DefaultOptions, 1)
    /\ pendingLoad = << >>
    /\ playTick = NoPlayTick
    /\ shadow = NoShadow
    /\ history = << getCurrentHistorySnapshot(LoadedGameState([mode |-> "editor"], 0, StartLevels[1])) >>
    /\ historyIndex = 0

MaxHistory == 2

\* the history after a handler that left the game state gs and the history e
Rendered(gs, e) ==
    /\ history' = HistoryEffect(levels, gs, e).history
    /\ historyIndex' = HistoryEffect(levels, gs, e).historyIndex

EditorHistory == [history |-> history, historyIndex |-> historyIndex]

(***************************************************************************)
(* App.tsx: runGameLoop, driven at dt = 1/60                               *)
(***************************************************************************)
\* lines 506-518: a brick as the loop places it at `time`
MovedBrick(brick, time) ==
    IF brick.movementType # MT_NULL /\ IsDefined(brick.initialX) /\ IsDefined(brick.initialY)
    THEN IF brick.movementType = MT_VERTICAL
         THEN [brick EXCEPT !.y = brick.initialY + MoveOffset(brick, time)]
         ELSE IF brick.movementType = MT_HORIZONTAL
              THEN [brick EXCEPT !.x = brick.initialX + MoveOffset(brick, time)]
              ELSE brick
    ELSE brick

MovedBricks(bricks, time) == [k \in 1..Len(bricks) |-> MovedBrick(bricks[k], time)]

\* lines 539-557: the loop over the bricks
RECURSIVE PlayBrickLoop(_, _, _)
RECURSIVE PlayBrickHit(_, _, _, _)
PlayBrickHit(bricks, k, acc, collision) ==
    IF ~collision.collision THEN PlayBrickLoop(bricks, k + 1, acc)
    ELSE IF bricks[k].isKillBrick
         THEN [acc EXCEPT !.events = Append(acc.events, "kill"), !.dead = TRUE]
         ELSE IF collision.overlap # 0
              THEN PlayBrickLoop(bricks, k + 1,
                       [acc EXCEPT !.ball = Bounce(acc.ball, collision),
                                   !.events = Append(acc.events, "bounce")])
              ELSE PlayBrickLoop(bricks, k + 1, acc)
PlayBrickLoop(bricks, k, acc) ==
    IF k > Len(bricks) THEN acc
    ELSE PlayBrickHit(bricks, k, acc, checkCircleRectCollision(acc.ball, bricks[k]))

\* lines 559-585: the launcher body and the hole
PlayAfterBricks(gs, hit) ==
    IF hit.dead THEN [ball |-> hit.ball, status |-> "fail", events |-> hit.events]
    ELSE IF doRectsOverlap(BallRect(hit.ball), gs.player)
    THEN [ball |-> hit.ball, status |-> "fail", events |-> Append(hit.events, "player")]
    ELSE IF HoleReached(hit.ball, gs.hole)
    THEN [ball |-> hit.ball, status |-> "win", events |-> Append(hit.events, "goal")]
    ELSE [ball |-> hit.ball, status |-> "fly", events |-> hit.events]

\* lines 520-585: the step of a fired ball, newBall being the ball as moved
PlayStep(gs, bricks, newBall) ==
    IF \/ newBall.x - newBall.radius < 0
       \/ newBall.x + newBall.radius > FALLBACK_CANVAS_WIDTH
       \/ newBall.y - newBall.radius < 0
    THEN [ball |-> newBall, status |-> "fail", events |-> <<"wall">>]
    ELSE IF newBall.y > FALLBACK_CANVAS_HEIGHT + newBall.radius * 2
    THEN [ball |-> newBall, status |-> "fail", events |-> <<"fell">>]
    ELSE PlayAfterBricks(gs, PlayBrickLoop(bricks, 1,
                                 [ball |-> newBall, events |-> << >>, dead |-> FALSE]))

\* simulateShot's ball and frame for the level being played, at brick time
\* `time`
ShadowStep(gs, sh, time) ==
    SimFrame(PreparedFrame(SavedLevel(gs)), PreparedBricksOf(SavedLevel(gs)), sh.ball, time)

\* the frame of simulateShot run beside a play tick
ShadowAfter(sh, r) == [status |-> r.status, ball |-> r.ball]

MaxTicks == 12

MaxPending == 2

\* lines 520-588, given the bricks as placed and what the step r did
FiredTick(bricks, r) ==
    /\ playTick' = [status |-> r.status, events |-> r.events]
    /\ IF r.status = "fail"
       THEN /\ gameState' = [gameState EXCEPT !.bricks = bricks, !.ball = resetBall(gameState)]
            /\ UNCHANGED pendingLoad
       ELSE IF r.status = "win"
       THEN IF gameState.currentLevelIndex + 1 < Len(levels)
            THEN /\ Len(pendingLoad) < MaxPending
                 /\ pendingLoad' = Append(pendingLoad, gameState.currentLevelIndex + 1)
                 /\ UNCHANGED gameState
            ELSE /\ gameState' = [gameState EXCEPT !.bricks = bricks, !.mode = "editor",
                                                   !.ball = resetBall(gameState)]
                 /\ UNCHANGED pendingLoad
       ELSE /\ gameState' = [gameState EXCEPT !.bricks = bricks,
                                !.ball = [r.ball EXCEPT !.fired = TRUE, !.onPlayer = FALSE]]
            /\ UNCHANGED pendingLoad

\* variant: the ball stepped in play mode whether fired or not
BallInFlightAnyway(gs) == gs.mode = "play"

\* line 519: the test that guards the physics of a frame
BallInFlight(gs) == gs.mode = "play" /\ gs.ball.fired

\* runGameLoop, lines 496-594: one animation frame
GameTick ==
    /\ clock < PhaseOffset(DefaultOptions, 1) + MaxTicks
    /\ clock' = clock + 1
    /\ IF BallInFlight(gameState)
       THEN /\ FiredTick(MovedBricks(gameState.bricks, clock),
                         PlayStep(gameState, MovedBricks(gameState.bricks, clock),
                                  MoveBall(gameState.ball)))
            /\ shadow' = IF shadow.status \in {"armed", "fly"}
                         THEN ShadowAfter(shadow, ShadowStep(gameState, shadow, clock))
                         ELSE NoShadow
       ELSE /\ gameState' = [gameState EXCEPT
                                !.bricks = MovedBricks(gameState.bricks, clock),
                                !.ball = IF ~gameState.ball.fired /\ gameState.ball.onPlayer
                                         THEN resetBall(gameState) ELSE @]
            /\ UNCHANGED << pendingLoad, playTick, shadow >>
    /\ Rendered(gameState', EditorHistory)
    /\ Len(history') <= MaxHistory
    /\ UNCHANGED << levels, aim, storage, downloaded, solverVars, probe, answer, game >>

\* loadLevelData lines 221-229: the index it loads from the list it is given
LoadedIndex(levelIndex, currentLevels) ==
    IF levelIndex < 0 \/ levelIndex >= Len(currentLevels) THEN 0 ELSE levelIndex

\* variant: the index worked out from the game state when the timer fires
TimerTargetAtFire(nextLevelIndex, gs) == gs.currentLevelIndex + 1

\* the index a timer loads: nextLevelIndex as its closure captured it when
\* the level was completed (lines 571-575)
TimerTarget(nextLevelIndex, gs) == nextLevelIndex

\* the setTimeout of line 573 fires: loadLevelData(nextLevelIndex, ...)
LoadTimer ==
    /\ pendingLoad # << >>
    /\ LET levelIndex == LoadedIndex(TimerTarget(Head(pendingLoad), gameState), levels)
       IN  gameState' = LoadedGameState(gameState, levelIndex, levels[levelIndex + 1])
    /\ pendingLoad' = Tail(pendingLoad)
    /\ playTick' = NoPlayTick
    /\ shadow' = NoShadow
    /\ Rendered(gameState', EditorHistory)
    /\ UNCHANGED << levels, aim, storage, downloaded, clock, solverVars, probe, answer, game >>

(***************************************************************************)
(* GameCanvas.tsx: aiming and firing                                       *)
(***************************************************************************)
\* where the pointer may be, relative to the resting ball
Pointers == { [x |-> -1210, y |-> -9930], [x |-> 0, y |-> -3000], [x |-> -10000, y |-> -100] }

\* lines 399-405: the length of the aim line; AIM_POWER_FACTOR is the ratio
\* 10 of a length to a speed, the constant above is that ratio for dpx
AimPower(aimVecRaw) ==
    Rnd(Min(ISqrt(VecLenSq(aimVecRaw)), BASE_AIM_LINE_LENGTH) * 10, AIM_POWER_FACTOR)

\* lines 399-407: the aim for a pointer at aimVecRaw from the ball
AimAt(normAimVec, power) ==
    [ active |-> TRUE,
      dx |-> Rnd(normAimVec.x * power, MILLI),
      dy |-> IF Rnd(normAimVec.y * power, MILLI) > MIN_AIM_VY
             THEN MIN_AIM_VY ELSE Rnd(normAimVec.y * power, MILLI) ]

\* handleMouseDown, lines 395-407, in play mode
MouseDown ==
    /\ gameState.mode = "play"
    /\ gameState.ball.onPlayer
    /\ \E pointer \in Pointers : aim' = AimAt(VecNormalize(pointer), AimPower(pointer))
    /\ UNCHANGED << levels, gameState, storage, downloaded, clock, pendingLoad, playTick, shadow,
                    history, historyIndex, solverVars, probe, answer, game >>

\* line 646: Math.abs(aim.dx) > 0.01 || Math.abs(aim.dy) < -0.01
HasPower(a) == Abs(a.dx) * 10 > 1 \/ Abs(a.dy) * 10 < -1

\* handleMouseUp, lines 644-651, in play mode
MouseUp ==
    /\ gameState.mode = "play"
    /\ aim.active
    /\ gameState.ball.onPlayer
    /\ aim' = [aim EXCEPT !.active = FALSE]
    /\ IF HasPower(aim)
       THEN /\ gameState' = [gameState EXCEPT !.ball.fired = TRUE, !.ball.onPlayer = FALSE,
                                              !.ball.vx = aim.dx, !.ball.vy = aim.dy]
            /\ shadow' = [status |-> "armed",
                          ball |-> ShotBall(PreparedFrame(SavedLevel(gameState)), aim.dx, aim.dy)]
       ELSE UNCHANGED << gameState, shadow >>
    /\ UNCHANGED << levels, storage, downloaded, clock, pendingLoad, playTick, history,
                    historyIndex, solverVars, probe, answer, game >>

\* Delete key, lines 729-758, with brick k selected
DeleteBrickAt(k) ==
    /\ gameState.mode = "editor"
    /\ k \in 1..Len(gameState.bricks)
    /\ gameState' = [gameState EXCEPT
                        !.bricks = SubSeq(@, 1, k - 1) \o SubSeq(@, k + 1, Len(@))]
    /\ Rendered(gameState', saveHistoryState(FALSE, gameState, EditorHistory))
    /\ UNCHANGED << levels, aim, storage, downloaded, clock, pendingLoad, playTick, shadow,
                    solverVars, probe, answer, game >>

DeleteBrick ==
    /\ \E k \in 1..Len(gameState.bricks) : DeleteBrickAt(k)
    /\ Len(history') <= MaxHistory

(***************************************************************************)
(* GameMenu.tsx                                                            *)
(***************************************************************************)
\* handleModeChange, lines 36-42; its resetBall is the one App.tsx passes,
\* gs => setGameState(prev => ({...prev, ...resetBall(gs)}))
ModeChange ==
    /\ \E newMode \in {"play", "editor"} :
          /\ gameState' = IF newMode = "play"
                          THEN [gameState EXCEPT !.mode = newMode, !.ball = resetBall(gameState)]
                          ELSE [gameState EXCEPT !.mode = newMode]
          /\ shadow' = IF newMode = "play" /\ gameState.ball.fired THEN NoShadow ELSE shadow
    /\ aim' = [aim EXCEPT !.active = FALSE]
    /\ Rendered(gameState', EditorHistory)
    /\ Len(history') <= MaxHistory
    /\ UNCHANGED << levels, storage, downloaded, clock, pendingLoad, playTick, solverVars, probe, answer, game >>

\* App.tsx lines 765-787 and 788-810: undo and redo load history[newHistoryIndex]
LoadHistory(newHistoryIndex) ==
    /\ gameState' =
          [gameState EXCEPT
              !.bricks = history[newHistoryIndex + 1].bricks,
              !.player = history[newHistoryIndex + 1].player,
              !.hole = history[newHistoryIndex + 1].hole,
              !.ball = resetBall([player |-> history[newHistoryIndex + 1].player,
                                  ball |-> [gameState.ball EXCEPT !.radius = BASE_BALL_RADIUS]])]
    /\ Rendered(gameState', [history |-> history, historyIndex |-> newHistoryIndex])
    /\ UNCHANGED << levels, aim, storage, downloaded, clock, pendingLoad, playTick, shadow,
                    solverVars, probe, answer, game >>

undo ==
    /\ ~(gameState.mode # "editor" \/ historyIndex <= 0)
    /\ LoadHistory(historyIndex - 1)

redo ==
    /\ ~(gameState.mode # "editor" \/ historyIndex >= Len(history) - 1)
    /\ LoadHistory(historyIndex + 1)

\* LevelList onSelectLevel: loadLevelData(idx), offered in editor mode
SelectLevelAt(idx) ==
    /\ gameState.mode = "editor"
    /\ idx \in 0..(Len(levels) - 1)
    /\ gameState' = LoadedGameState(gameState, idx, levels[idx + 1])
    /\ playTick' = NoPlayTick
    /\ shadow' = NoShadow
    /\ Rendered(gameState', EditorHistory)
    /\ UNCHANGED << levels, aim, storage, downloaded, clock, pendingLoad, solverVars, probe, answer, game >>

SelectLevel ==
    /\ \E idx \in 0..(Len(levels) - 1) : SelectLevelAt(idx)
    /\ Len(history') <= MaxHistory

\* saveCurrentLevelData (App.tsx lines 695-760), offered in editor mode
SaveCurrentLevel ==
    /\ gameState.mode = "editor"
    /\ levels' = LevelsWithSaved(levels, gameState)
    /\ storage' = LevelsWithSaved(levels, gameState)
    /\ UNCHANGED << gameState, aim, downloaded, clock, pendingLoad, playTick, shadow, history,
                    historyIndex, solverVars, probe, answer, game >>

\* handleExportSelectedLevel, lines 101-133, offered in editor mode: the
\* level is saved, then levels[index] of this render is downloaded
ExportSelectedLevel ==
    /\ gameState.mode = "editor"
    /\ levels' = LevelsWithSaved(levels, gameState)
    /\ storage' = LevelsWithSaved(levels, gameState)
    /\ downloaded' = { levels[gameState.currentLevelIndex + 1] }
    /\ UNCHANGED << gameState, aim, clock, pendingLoad, playTick, shadow, history, historyIndex,
                    solverVars, probe, answer, game >>

\* createDefaultLevelData, App.tsx lines 104-121: a tilted brick, a
\* horizontal mover and a lethal vertical mover
createDefaultLevelData ==
    [ savedCanvasWidth |-> FALLBACK_CANVAS_WIDTH, savedCanvasHeight |-> FALLBACK_CANVAS_HEIGHT,
      player |-> [x |-> Rnd(FALLBACK_CANVAS_WIDTH, 2) - Rnd(BASE_PLAYER_WIDTH, 2),
                  y |-> FALLBACK_CANVAS_HEIGHT - BASE_PLAYER_DEFAULT_BOTTOM_OFFSET],
      hole |-> [x |-> Rnd(FALLBACK_CANVAS_WIDTH, 2), y |-> BASE_HOLE_DEFAULT_Y],
      bricks |-> <<
        [ RawBrick(Rnd(FALLBACK_CANVAS_WIDTH, 2) - 1500, 3000, 2000, 150, FALSE) EXCEPT
            !.angle = -20, !.moveRange = BASE_DEFAULT_MOVE_RANGE, !.moveSpeed = DEFAULT_MOVE_SPEED,
            !.initialX = Undefined, !.initialY = Undefined ]
          @@ [baseWidth |-> 2000, baseHeight |-> 150],
        [ RawBrick(Rnd(FALLBACK_CANVAS_WIDTH, 2) - 500, 1800, 1000, 150, FALSE) EXCEPT
            !.movementType = MT_HORIZONTAL, !.moveRange = 800, !.moveSpeed = 1500 ]
          @@ [baseWidth |-> 1000, baseHeight |-> 150],
        [ RawBrick(Rnd(FALLBACK_CANVAS_WIDTH, 2) + 1500 - 75, 2500, 150, 800, TRUE) EXCEPT
            !.movementType = MT_VERTICAL, !.moveRange = 400, !.moveSpeed = 800 ]
          @@ [baseWidth |-> 150, baseHeight |-> 800] >> ]


\* the loadLevelData prop of GameMenu, App.tsx lines 688-694:
\* idx => loadLevelData(idx, levels, ...), levels being those of this render
MenuLoad(idx) ==
    /\ gameState' = LoadedGameState(gameState, LoadedIndex(idx, levels),
                                    levels[LoadedIndex(idx, levels) + 1])
    /\ playTick' = NoPlayTick
    /\ shadow' = NoShadow
    /\ Rendered(gameState', saveHistoryState(FALSE, gameState, EditorHistory))
    /\ Len(history') <= MaxHistory

MaxLevels == 3

\* handleAddNewLevel, lines 63-73
handleAddNewLevel ==
    /\ gameState.mode = "editor"
    /\ Len(levels) < MaxLevels
    /\ levels' = Append(levels, createDefaultLevelData)
    /\ MenuLoad(Len(levels') - 1)
    /\ UNCHANGED << aim, storage, downloaded, clock, pendingLoad, solverVars, probe, answer, game >>

\* handleDeleteSelectedLevel, lines 75-89, the confirm accepted
handleDeleteSelectedLevel ==
    /\ gameState.mode = "editor"
    /\ ~(Len(levels) <= 1)
    /\ levels' = SubSeq(levels, 1, gameState.currentLevelIndex)
                   \o SubSeq(levels, gameState.currentLevelIndex + 2, Len(levels))
    /\ MenuLoad(Max(0, gameState.currentLevelIndex - 1))
    /\ UNCHANGED << aim, storage, downloaded, clock, pendingLoad, solverVars, probe, answer, game >>

\* handleMoveLevel, lines 91-99; a move off the end of the list only saves
\* the history
handleMoveLevel(index, targetIndex) ==
    /\ gameState.mode = "editor"
    /\ IF targetIndex < 0 \/ targetIndex >= Len(levels)
       THEN /\ Rendered(gameState, saveHistoryState(FALSE, gameState, EditorHistory))
            /\ Len(history') <= MaxHistory
            /\ UNCHANGED << levels, gameState, playTick, shadow >>
       ELSE /\ levels' = [levels EXCEPT ![index + 1] = levels[targetIndex + 1],
                                        ![targetIndex + 1] = levels[index + 1]]
            /\ MenuLoad(targetIndex)
    /\ UNCHANGED << aim, storage, downloaded, clock, pendingLoad, solverVars, probe, answer, game >>

MoveLevel ==
    \E index \in 0..(Len(levels) - 1) : \E targetIndex \in {index - 1, index + 1} :
        handleMoveLevel(index, targetIndex)

\* a level file written by hand: the anchor of its lift is not where the
\* lift is drawn
DriftedLift ==
    [ RawBrick(1000, 1000, 1000, 100, FALSE) EXCEPT
        !.movementType = MT_VERTICAL, !.moveRange = 400, !.moveSpeed = 800, !.initialX = 1200 ]
DriftedLiftLevel == LevelOf(3800, 2400, 4000, 1300, << DriftedLift >>)

\* handleFileImport, lines 139-173, with one well-formed file
handleFileImport ==
    /\ gameState.mode = "editor"
    /\ Len(levels) < MaxLevels
    /\ levels' = Append(levels, validateAndDefaultLevel(DriftedLiftLevel))
    /\ MenuLoad(Len(levels') - 1)
    /\ UNCHANGED << aim, storage, downloaded, clock, pendingLoad, solverVars, probe, answer, game >>

Idle == [kind |-> "none"]

(***************************************************************************)
(* The Game object of the pointer-driven engine (bounceback2).  Lengths    *)
(* are thousandths of the normalised arena unit, magnitudes and speeds     *)
(* thousandths.  dragCurrentPos is read only inside the handler that set   *)
(* it and by the renderer, so the pointer position enters as the aim       *)
(* vector it gives.  dragMoved records whether handlePointerMove ran since *)
(* the last press; no handler reads it.                                    *)
(***************************************************************************)
MAX_BALL_SPEED == 1200
MIN_LAUNCH_MAGNITUDE == 100
MAX_LAUNCH_MAGNITUDE == 1000

\* the fields of a Game after its constructor, lines 761-773
NewGame ==
    [ loaded |-> FALSE, playState |-> "idle", attempts |-> 0, isDragging |-> FALSE,
      launchDirection |-> VecCreate(0, 0), launchMagnitude |-> 0,
      ballSpeed |-> 0, ballDirection |-> VecCreate(0, 0),
      timers |-> 0, dragMoved |-> FALSE ]

MaxAttempts == 3
MaxTimers == 2

\* pointer positions relative to the ball's orbit centre
AimVectors == { VecCreate(0, 0), VecCreate(15, 0), VecCreate(0, -150), VecCreate(-450, 0) }

\* Level.reset as far as the Game sees it: the ball is back on its orbit
LevelReset(g) == [g EXCEPT !.ballSpeed = 0, !.ballDirection = VecCreate(0, 0)]

\* loadLevel, lines 910-917
loadLevel ==
    /\ game' = [LevelReset(game) EXCEPT !.loaded = TRUE, !.attempts = 0,
                                        !.playState = "idle", !.isDragging = FALSE]
    /\ game' # game
    /\ UNCHANGED << solverVars, appVars, probe, answer >>

\* reset, lines 932-937
reset ==
    /\ game.loaded
    /\ game' = [LevelReset(game) EXCEPT !.isDragging = FALSE, !.playState = "idle"]
    /\ game' # game
    /\ UNCHANGED << solverVars, appVars, probe, answer >>

\* handlePointerDown, lines 839-850
handlePointerDown ==
    /\ ~(~game.loaded \/ game.playState = "launched" \/ game.playState = "success")
    /\ game' = [game EXCEPT !.isDragging = TRUE, !.playState = "aiming", !.dragMoved = FALSE]
    /\ UNCHANGED << solverVars, appVars, probe, answer >>

\* the magnitude of a drag of the given length, lines 865-868
DragMagnitude(aimDistance) ==
    Min(Max((aimDistance * MILLI) \div 300, 0), MAX_LAUNCH_MAGNITUDE)

\* handlePointerMove, lines 852-873
handlePointerMove(aimVector) ==
    /\ ~(~game.isDragging \/ ~game.loaded)
    /\ LET aimDistance == ISqrt(VecLenSq(aimVector))
       IN  game' = [game EXCEPT
                      !.launchMagnitude = DragMagnitude(aimDistance),
                      !.launchDirection = IF aimDistance > 1 THEN VecNormalize(aimVector) ELSE @,
                      !.dragMoved = TRUE]
    /\ UNCHANGED << solverVars, appVars, probe, answer >>

PointerMove == \E aimVector \in AimVectors : handlePointerMove(aimVector)

\* launchBall, lines 891-899
launchBall(g) ==
    [g EXCEPT !.ballSpeed = (g.launchMagnitude * MAX_BALL_SPEED) \div MAX_LAUNCH_MAGNITUDE,
              !.ballDirection = g.launchDirection,
              !.attempts = g.attempts + 1,
              !.playState = "launched"]

\* handlePointerUp, lines 875-889 (mouseup, mouseleave, touchend, touchcancel)
handlePointerUp ==
    /\ game.attempts < MaxAttempts
    /\ IF ~game.isDragging \/ ~game.loaded
         THEN game' = [game EXCEPT !.isDragging = FALSE]
         ELSE IF game.launchMagnitude >= MIN_LAUNCH_MAGNITUDE
           THEN game' = launchBall([game EXCEPT !.isDragging = FALSE])
           ELSE game' = [game EXCEPT !.isDragging = FALSE, !.playState = "idle"]
    /\ game' # game
    /\ UNCHANGED << solverVars, appVars, probe, answer >>

\* update and handlePhysicsResult, lines 950-1000, on each kind of result
\* that checkCollisions can give; a bounce or a free frame leaves the
\* Game's own fields as they are
handlePhysicsResult(result) ==
    /\ game.loaded
    /\ game.playState = "launched"
    /\ CASE result \in { "wall", "killBrick" } ->
              /\ game.timers < MaxTimers
              /\ game' = [LevelReset(game) EXCEPT !.playState = "failed", !.timers = @ + 1]
         [] result = "hole" -> game' = [game EXCEPT !.playState = "success"]
    /\ UNCHANGED << solverVars, appVars, probe, answer >>

BallOut == \E result \in { "wall", "killBrick" } : handlePhysicsResult(result)
BallInHole == handlePhysicsResult("hole")

\* the callback of setTimeout(..., 300), lines 973-977
RestartTimer ==
    /\ game.timers > 0
    /\ game' = [game EXCEPT !.timers = @ - 1,
                            !.playState = IF @ = "failed" THEN "idle" ELSE @]
    /\ UNCHANGED << solverVars, appVars, probe, answer >>

GameNext ==
    \/ loadLevel \/ reset \/ handlePointerDown \/ PointerMove \/ handlePointerUp
    \/ BallOut \/ BallInHole \/ RestartTimer

Init == SolverInit /\ AppInit /\ probe = Idle /\ answer = Idle /\ game = NewGame

AppNext ==
    \/ GameTick \/ LoadTimer \/ MouseDown \/ MouseUp \/ DeleteBrick
    \/ ModeChange \/ SelectLevel \/ SaveCurrentLevel \/ ExportSelectedLevel

AppSpec == Init /\ [][AppNext]_vars

\* playing and editing with undo and redo, the levels as they were loaded
EditNext ==
    \/ GameTick \/ LoadTimer \/ MouseDown \/ MouseUp \/ DeleteBrick
    \/ ModeChange \/ SelectLevel \/ undo \/ redo

EditSpec == Init /\ [][EditNext]_vars

\* the level list edited from the menu
MenuNext ==
    \/ ModeChange \/ SelectLevel
    \/ handleAddNewLevel \/ handleDeleteSelectedLevel \/ MoveLevel \/ handleFileImport

MenuSpec == Init /\ [][MenuNext]_vars

\* the game started on the fallback level, an imported level beside it
MoverLevels == << createDefaultLevelData, validateAndDefaultLevel(DriftedLiftLevel) >>

MoverInit ==
    /\ SolverInit
    /\ levels = MoverLevels
    /\ gameState = LoadedGameState([mode |-> "editor"], 0, MoverLevels[1])
    /\ aim = [active |-> FALSE, dx |-> 0, dy |-> 0]
    /\ storage = MoverLevels
    /\ downloaded = {}
    /\ clock = PhaseOffset(DefaultOptions, 1)
    /\ pendingLoad = << >>
    /\ playTick = NoPlayTick
    /\ shadow = NoShadow
    /\ history = << getCurrentHistorySnapshot(LoadedGameState([mode |-> "editor"], 0, MoverLevels[1])) >>
    /\ historyIndex = 0
    /\ probe = Idle
    /\ answer = Idle
    /\ game = NewGame

MoverNext == GameTick \/ ModeChange \/ SelectLevel \/ MouseDown \/ MouseUp

MoverSpec == MoverInit /\ [][MoverNext]_vars

(***************************************************************************)
(* checkCircleRectCollision and Vec.reflect on their own.  Lengths of the  *)
(* collision probes are in thousandths of a pixel: a ball of radius 10 px  *)
(* about a brick of 20 px by 10 px at the origin, unrotated or turned by   *)
(* 0.3 or 0.79 rad.  Velocities are in dpx, normals in thousandths.        *)
(***************************************************************************)
Probes ==
    { [kind |-> "collide",
       circle |-> [x |-> x, y |-> y, radius |-> 10000],
       brick |-> [RawBrick(0, 0, 20000, 10000, FALSE) EXCEPT !.angle = a]] :
         x \in {-10001, -9999, -5000, 8000, 20000, 25000, 26000, 29900, 29999, 30000, 30001},
         y \in {-10001, -10000, -9999, -8000, -7000, -300, -200, 5000, 10300, 17000, 19999,
                20000},
         a \in {0, 30, 79} }
    \cup
    { [kind |-> "reflect", v |-> VecCreate(vx0, vy0), n |-> VecNormalize(dir)] :
         vx0 \in {-100, -37, 0, 12, 100}, vy0 \in {-100, -99, -1, 50},
         dir \in { VecCreate(1000, 0), VecCreate(0, 1000), VecCreate(0, -1000),
                   VecCreate(3000, 4000), VecCreate(1000, 1000), VecCreate(-5000, 12000),
                   VecCreate(1000, 2000), VecCreate(-1000, 3000) } }

GeomInit == SolverInit /\ AppInit /\ probe \in Probes /\ answer = Idle /\ game = NewGame

Collide ==
    /\ probe.kind = "collide"
    /\ answer = Idle
    /\ answer' = [kind |-> "collide",
                  result |-> checkCircleRectCollision(probe.circle, probe.brick)]
    /\ UNCHANGED << probe, solverVars, appVars, game >>

Reflect ==
    /\ probe.kind = "reflect"
    /\ answer = Idle
    /\ answer' = [kind |-> "reflect",
                  once |-> VecReflect(probe.v, probe.n),
                  twice |-> VecReflect(VecReflect(probe.v, probe.n), probe.n),
                  once2 |-> Vec2Reflect(probe.v, probe.n),
                  twice2 |-> Vec2Reflect(Vec2Reflect(probe.v, probe.n), probe.n)]
    /\ UNCHANGED << probe, solverVars, appVars, game >>

GeomNext == Collide \/ Reflect

GeomSpec == GeomInit /\ [][GeomNext]_vars

\* editing one level for long enough to fill the history
HistLevels == << validateAndDefaultLevel(LedgeWallLevel) >>

HistInit ==
    /\ SolverInit
    /\ levels = HistLevels
    /\ gameState = LoadedGameState([mode |-> "editor"], 0, HistLevels[1])
    /\ aim = [active |-> FALSE, dx |-> 0, dy |-> 0]
    /\ storage = HistLevels
    /\ downloaded = {}
    /\ clock = PhaseOffset(DefaultOptions, 1)
    /\ pendingLoad = << >>
    /\ playTick = NoPlayTick
    /\ shadow = NoShadow
    /\ history = << getCurrentHistorySnapshot(LoadedGameState([mode |-> "editor"], 0, HistLevels[1])) >>
    /\ historyIndex = 0
    /\ probe = Idle
    /\ answer = Idle
    /\ game = NewGame

\* resetEditorSelectionAndHistory, lines 202-214, and the effect after it
resetEditorSelectionAndHistory ==
    /\ history # << >>
    /\ Rendered(gameState, [history |-> << >>, historyIndex |-> -1])
    /\ UNCHANGED << levels, gameState, aim, storage, downloaded, clock, pendingLoad, playTick,
                    shadow, solverVars, probe, answer, game >>

DeleteFirstBrick == DeleteBrickAt(1)
ReloadLevel == SelectLevelAt(0)

HistNext == DeleteFirstBrick \/ ReloadLevel \/ undo \/ redo \/ resetEditorSelectionAndHistory

HistSpec == HistInit /\ [][HistNext]_vars

\* playing through levels whose hole is a few frames from the launcher
NearHoleLevel == LevelOf(3800, 2400, 4000, 1900, << >>)

WinLevels ==
    << validateAndDefaultLevel(NearHoleLevel), validateAndDefaultLevel(NearHoleLevel),
       validateAndDefaultLevel(EmptyLevel) >>

WinInit ==
    /\ SolverInit
    /\ levels = WinLevels
    /\ gameState = LoadedGameState([mode |-> "editor"], 0, WinLevels[1])
    /\ aim = [active |-> FALSE, dx |-> 0, dy |-> 0]
    /\ storage = WinLevels
    /\ downloaded = {}
    /\ clock = PhaseOffset(DefaultOptions, 1)
    /\ pendingLoad = << >>
    /\ playTick = NoPlayTick
    /\ shadow = NoShadow
    /\ history = << getCurrentHistorySnapshot(LoadedGameState([mode |-> "editor"], 0, WinLevels[1])) >>
    /\ historyIndex = 0
    /\ probe = Idle
    /\ answer = Idle
    /\ game = NewGame

WinNext == GameTick \/ LoadTimer \/ ModeChange \/ MouseDown \/ MouseUp

WinSpec == WinInit /\ [][WinNext]_vars

\* findSolvableShot called with a negative vxStep, which line 255 takes as
\* given
BackwardOptions == [maxFrames |-> MaxFrames, vxStep |-> -50, phaseSamples |-> 1, phaseDuration |-> 480]

CallBackward ==
    /\ pc = "idle"
    /\ \E lv \in LevelPool : Enter(lv, BackwardOptions, lv.bricks)
    /\ UNCHANGED << results, appVars, probe, answer, game >>

BackNext == CallBackward \/ VxLoop \/ PhaseLoop \/ Frame

BackSpec == Init /\ [][BackNext]_vars

GameSpec == Init /\ [][GameNext]_vars

Next == Call \/ VxLoop \/ PhaseLoop \/ Frame \/ CallAgain

Spec == Init /\ [][Next]_vars

(***************************************************************************)
(* The solvability search: what a call returns                             *)
(***************************************************************************)
Returned == pc = "done"
LastResult == results[Len(results)]

\* the vx values and phase indices of the sweep
GridVx(o) == { v \in -AIM_POWER_FACTOR..AIM_POWER_FACTOR : (v + AIM_POWER_FACTOR) % o.vxStep = 0 }
GridPhase(o) == 0..(o.phaseSamples - 1)

\* the shot (v, k) of the grid reaches the hole
ShotWins(lv, o, v, k) ==
    simulateShot(PreparedFrame(lv), PreparedBricksOf(lv), v, LaunchVy(v), PhaseOffset(o, k), o.maxFrames)

SomeShotWins(lv, o) == \E v \in GridVx(o) : \E k \in GridPhase(o) : ShotWins(lv, o, v, k)

\* (v, k) wins and no shot before it in sweep order does
FirstWinningShot(lv, o, v, k) ==
    /\ ShotWins(lv, o, v, k)
    /\ \A w \in GridVx(o) : \A j \in GridPhase(o) :
          (w < v \/ (w = v /\ j < k)) => ~ShotWins(lv, o, w, j)

\* C2: findSolvableShot terminates for every level and every numeric value
\* of the options.  The sweep is a loop over vx that ends when vx exceeds
\* AIM_POWER_FACTOR, so it terminates only if every pass of that loop (from
\* the end of the phase loop back to the test of the vx loop) moves vx up.
C2_SweepAdvances == [][(pc = "phase" /\ pc' = "vx") => vx' > vx]_vars

C4_WitnessLastVx == Returned /\ LastResult.solvable /\ LastResult.shot.vx = AIM_POWER_FACTOR

\* C5: two calls with the same level and options return the same result.
C5_SameResultAgain == \A k \in 1..Len(results) : results[k] = results[1]

\* a second call returned a shot whose success depends on the brick time
C5_Witness ==
    /\ Len(results) = 2
    /\ results[2].solvable
    /\ results[2].shot.phaseOffset > 0

\* a static lethal brick spanning the arena between the launcher and the hole
LethalBarrier(lv) ==
    \E k \in 1..Len(lv.bricks) :
        LET b == lv.bricks[k]
        IN  /\ b.isKillBrick
            /\ b.movementType = MT_NULL
            /\ b.angle = 0
            /\ b.x <= 0
            /\ b.x + b.width >= lv.savedCanvasWidth
            /\ b.y + b.height <= lv.player.y
            /\ b.y >= lv.hole.y + BASE_HOLE_RADIUS

\* C6: on a level with a static lethal brick spanning the full width between
\* launcher and hole, findSolvableShot returns solvable = false.
C6_BarrierUnsolvable == (Returned /\ LethalBarrier(level)) => ~LastResult.solvable

\* no bricks, the launcher directly below the hole
OpenAligned(lv) ==
    /\ Len(lv.bricks) = 0
    /\ lv.player.x + BASE_PLAYER_WIDTH \div 2 = lv.hole.x
    /\ lv.player.y > lv.hole.y

\* how many vx samples the sweep tried before the one returned
SamplesBefore(r, o) == (r.shot.vx + AIM_POWER_FACTOR) \div o.vxStep

C8_InputUnchanged == pc # "idle" => InputBricks = level.bricks

\* a call returned on a level whose brick the preparation had to normalise
C8_Witness ==
    /\ Returned
    /\ Len(level.bricks) > 0
    /\ level.bricks[1].movementType = "Horizontal"
    /\ objs[prepared.bricks[1]].movementType = MT_HORIZONTAL
    /\ objs[prepared.bricks[1]].height > level.bricks[1].height

\* C9: one tick produces at most one outcome among wall out, lethal hit,
\* goal reached and bounce.
C9_OneOutcomePerTick == Len(tick.events) <= 1

\* C10: a tick in which the moved ball overlaps a lethal brick ends the
\* attempt.
C10_LethalOverlapFails == tick.movedKill => tick.status = "fail"

(***************************************************************************)
(* The application: what is written, and play beside the solver            *)
(***************************************************************************)
\* the levels in storage and the level of the last download
Written == { storage[k] : k \in 1..Len(storage) } \cup downloaded

\* C1: a save or an export writes no level on which findSolvableShot (default
\* options) returns solvable = false, whatever the editor did before: every
\* level that a step adds to storage or to the downloads has a winning shot.
C1_WritesOnlySolvable ==
    [][\A lv \in Written' \ Written : SomeShotWins(lv, DefaultOptions)]_vars

\* C3: a fired ball stepped by runGameLoop at dt = 1/60 and the same ball
\* stepped by simulateShot on the same level at the same brick time are in
\* the same place with the same velocity after every tick, and end the same
\* way.
C3_PlayMatchesSolver ==
    shadow.status \in {"fly", "win", "fail"} =>
        /\ playTick.status = shadow.status
        /\ shadow.status = "fly" =>
              /\ gameState.ball.x = shadow.ball.x
              /\ gameState.ball.y = shadow.ball.y
              /\ gameState.ball.vx = shadow.ball.vx
              /\ gameState.ball.vy = shadow.ball.vy

(***************************************************************************)
(* The order of the tests within a step                                    *)
(***************************************************************************)
\* C11: the goal test comes before the obstacle scan: a frame of simulateShot
\* whose moved ball (its next position) is inside the hole's tolerance ends
\* as goal reached, whatever brick or launcher body the ball overlaps there.
C11_GoalBeforeObstacles ==
    [][(pc = "sim" /\ frame < opts.maxFrames /\ HoleReached(MoveBall(ball), prepared.hole))
          => tick'.status = "win"]_vars

(***************************************************************************)
(* The bounce                                                              *)
(***************************************************************************)
\* the first brick of the list that the ball b collides with at timeTicks
FirstHit(bricks, b, timeTicks) ==
    CHOOSE k \in 1..Len(bricks) :
        /\ checkCircleRectCollision(b, getBrickAtTime(bricks[k], timeTicks)).collision
        /\ \A j \in 1..(k - 1) :
              ~checkCircleRectCollision(b, getBrickAtTime(bricks[j], timeTicks)).collision

\* C12: the push of a bounce separates ball and brick: after a frame in which
\* the ball bounced (once), the ball as pushed does not collide with the
\* brick it bounced off, placed at the time of that frame.
C12_PushSeparates ==
    [][(pc = "sim" /\ frame < opts.maxFrames /\ tick'.events = <<"bounce">>) =>
          ~checkCircleRectCollision(ball',
               getBrickAtTime(PreparedBricks[FirstHit(PreparedBricks, MoveBall(ball),
                                                      SimTime(PhaseOffset(opts, i), frame))],
                              SimTime(PhaseOffset(opts, i), frame))).collision]_vars

(***************************************************************************)
(* The ball at rest and in flight                                          *)
(***************************************************************************)
\* the ball of gs lies at rest on the launcher
AtRest(gs) ==
    /\ ~gs.ball.fired
    /\ gs.ball.onPlayer
    /\ gs.ball.vx = 0
    /\ gs.ball.vy = 0
    /\ gs.ball.x = gs.player.x + gs.player.width \div 2
    /\ gs.ball.y = gs.player.y - gs.ball.radius - BALL_REST_GAP

C14_LauncherLethalNotAtLaunch ==
    [][(pc = "sim" /\ frame < opts.maxFrames /\ << pc, frame >>' # << pc, frame >>) =>
          /\ doRectsOverlap(BallRect(ball'), prepared.player) => tick'.status = "fail"
          /\ frame = 0 =>
                ~(\E k \in 1..Len(tick'.events) : tick'.events[k] = "player")]_vars

\* a shot ended by the launcher body some frames after its launch
C14_Witness ==
    /\ pc = "phase"
    /\ frame > 0
    /\ tick.status = "fail"
    /\ tick.events # << >>
    /\ tick.events[Len(tick.events)] = "player"
    /\ doRectsOverlap(BallRect(ball), prepared.player)

\* C14 as the code has it: the launcher body is lethal in every frame, and
\* the first frame of a shot is not ended by the launcher body unless a brick
\* pushed the ball in that frame.
C14_LauncherLethalUnlessPushed ==
    [][(pc = "sim" /\ frame < opts.maxFrames /\ << pc, frame >>' # << pc, frame >>) =>
          /\ doRectsOverlap(BallRect(ball'), prepared.player) => tick'.status = "fail"
          /\ (frame = 0 /\ tick'.events # << >> /\ tick'.events[1] # "bounce") =>
                ~(\E k \in 1..Len(tick'.events) : tick'.events[k] = "player")]_vars

\* C15: the goal test is "the centre of the ball is nearer to the centre of
\* the hole than holeRadius - k * ballRadius" with 0 < k < 1: for every ball
\* position of a simulated shot the test of simulateShot and runGameLoop says
\* what Hole.containsBall says, and a ball it accepts has its centre inside
\* the hole.
C15_GoalTestsAgree ==
    ball # NoBall =>
        /\ HoleReached(ball, prepared.hole)
              <=> containsBall(prepared.hole, VecCreate(ball.x, ball.y), ball.radius)
        /\ HoleReached(ball, prepared.hole) =>
              VecLenSq(VecSub(VecCreate(ball.x, ball.y),
                              VecCreate(prepared.hole.x, prepared.hole.y)))
                 < prepared.hole.radius * prepared.hole.radius

\* C16: the ball is in exactly one of its two states, resting on the launcher
\* or fired: in every game state reached by loading, aiming, firing, flying,
\* failing, completing, deleting, undoing, redoing and switching modes,
\* ball.fired and ball.onPlayer differ.
C16_FiredXorOnPlayer == gameState.ball.fired # gameState.ball.onPlayer

\* the editor entered in mid-flight, after an undo
C16_Witness ==
    /\ gameState.mode = "editor"
    /\ gameState.ball.fired
    /\ ~gameState.ball.onPlayer
    /\ historyIndex < Len(history) - 1

NearestOnRect(c, brick) ==
    VecCreate(Max(brick.x, Min(c.x, brick.x + brick.width)),
              Max(brick.y, Min(c.y, brick.y + brick.height)))

\* C18: for a brick with angle 0 checkCircleRectCollision says what the
\* axis-aligned test says: a collision exactly when the centre of the circle
\* is nearer to the rectangle than its radius (touching is none), and for a
\* centre outside the rectangle the normal is the direction from the nearest
\* point of the rectangle to the centre.
C18_AgreesWithAxisAligned ==
    (answer.kind = "collide" /\ probe.brick.angle = 0) =>
        LET c == VecCreate(probe.circle.x, probe.circle.y)
            away == VecSub(c, NearestOnRect(c, probe.brick))
        IN  /\ answer.result.collision
                  <=> VecLenSq(away) < probe.circle.radius * probe.circle.radius
            /\ (answer.result.collision /\ VecLenSq(away) > 0)
                  => answer.result.normal = VecNormalize(away)

\* the axes checkCircleRectCollision tests for a circle and a brick
TestedAxes(circle, brick) ==
    WithVertexAxis(getRectAxes(getRectVertices(brick)),
        VecNormalize(VecSub(VecCreate(circle.x, circle.y),
            ClosestVertexFrom(getRectVertices(brick), VecCreate(circle.x, circle.y), 2,
                              getRectVertices(brick)[1]))))

OverlapOn(circle, brick, axis) ==
    AxisOverlap(projectShapeOntoAxis(getRectVertices(brick), axis),
                projectCircleOntoAxis(circle, axis))

\* C19: when checkCircleRectCollision reports a collision, every tested axis
\* overlaps, the normal is a tested axis of least overlap or its opposite, the
\* overlap returned is that least overlap, the normal has length 1 (to the
\* thousandth) and it does not point from the circle towards the centre of
\* the rectangle.
C19_NormalIsLeastAxisOutward ==
    (answer.kind = "collide" /\ answer.result.collision) =>
        LET axes == TestedAxes(probe.circle, probe.brick)
            normal == answer.result.normal
        IN  /\ \A j \in 1..Len(axes) :
                  /\ OverlapOn(probe.circle, probe.brick, axes[j]) > 0
                  /\ OverlapOn(probe.circle, probe.brick, axes[j]) >= answer.result.overlap
            /\ \E k \in 1..Len(axes) :
                  /\ normal = axes[k] \/ normal = VecCreate(-axes[k].x, -axes[k].y)
                  /\ OverlapOn(probe.circle, probe.brick, axes[k]) = answer.result.overlap
            /\ Abs(VecLenSq(normal) - MILLI * MILLI) <= 2 * MILLI
            /\ VecDot(normal,
                      VecSub(VecCreate(probe.circle.x, probe.circle.y),
                             VecCreate(probe.brick.x + Rnd(probe.brick.width, 2),
                                       probe.brick.y + Rnd(probe.brick.height, 2)))) >= 0

\* a turned brick is hit and the axis of least overlap was found pointing
\* into the brick: the normal returned is its opposite
C19_Witness ==
    /\ answer.kind = "collide"
    /\ answer.result.collision
    /\ probe.brick.angle # 0
    /\ \A j \in 1..Len(TestedAxes(probe.circle, probe.brick)) :
          answer.result.normal # TestedAxes(probe.circle, probe.brick)[j]
    /\ \E k \in 1..Len(TestedAxes(probe.circle, probe.brick)) :
          answer.result.normal = VecCreate(-TestedAxes(probe.circle, probe.brick)[k].x,
                                           -TestedAxes(probe.circle, probe.brick)[k].y)

\* C20 as stated: reflecting twice in the same unit normal gives back exactly
\* the velocity, in both Vec modules, and a reflection keeps the squared speed
\* exactly.
C20_ReflectIsExactInvolution ==
    answer.kind = "reflect" =>
        /\ answer.twice = probe.v
        /\ answer.twice2 = probe.v
        /\ VecLenSq(answer.once) = VecLenSq(probe.v)
        /\ VecLenSq(answer.once2) = VecLenSq(probe.v)

\* equal to within one unit of the fixed-point arithmetic in each component
Near(a, b) == Abs(a.x - b.x) <= 1 /\ Abs(a.y - b.y) <= 1

\* C20: reflecting twice in the same unit normal gives back the velocity to
\* within the rounding of the arithmetic, in both Vec modules, and a reflection
\* changes the speed by no more than that rounding.
C20_ReflectIsInvolutionWithinTolerance ==
    answer.kind = "reflect" =>
        /\ Near(answer.twice, probe.v)
        /\ Near(answer.twice2, probe.v)
        /\ Abs(ISqrt(VecLenSq(answer.once)) - ISqrt(VecLenSq(probe.v))) <= 1
        /\ Abs(ISqrt(VecLenSq(answer.once2)) - ISqrt(VecLenSq(probe.v))) <= 1

\* a velocity with a component along an oblique normal has been reflected:
\* the reflection changed it, and the second reflection did not give the
\* exact velocity back
C20_Witness ==
    /\ answer.kind = "reflect"
    /\ probe.n.x # 0
    /\ probe.n.y # 0
    /\ VecDot(probe.v, probe.n) # 0
    /\ answer.once # probe.v
    /\ answer.twice # probe.v
    /\ Near(answer.twice, probe.v)

\* the next game state is level k of the next level list, freshly loaded
LoadedFromUpdated(k) ==
    /\ gameState'.currentLevelIndex = k
    /\ gameState' = LoadedGameState(gameState, k, levels'[k + 1])

\* C24: after a level-list operation of the menu the level loaded into the
\* game is the entry of the updated list at the requested index: the new
\* level after Add New, the level at max(0, i - 1) of the remaining list after
\* deleting level i, the moved level after a move.
C24_MenuLoadsFromUpdatedList ==
    [][/\ handleAddNewLevel => LoadedFromUpdated(Len(levels') - 1)
       /\ handleDeleteSelectedLevel => LoadedFromUpdated(Max(0, gameState.currentLevelIndex - 1))
       /\ \A index \in 0..(Len(levels) - 1) : \A targetIndex \in {index - 1, index + 1} :
             (targetIndex >= 0 /\ targetIndex < Len(levels) /\ handleMoveLevel(index, targetIndex))
                => LoadedFromUpdated(targetIndex)]_vars

\* a brick placed for some time keeps its anchor, size, angle and kind, stays
\* on the line through its anchor along its movement axis, and is unchanged if
\* it has no movement type
OnItsAxis(before, after) ==
    /\ after.initialX = before.initialX
    /\ after.initialY = before.initialY
    /\ after.width = before.width
    /\ after.height = before.height
    /\ after.angle = before.angle
    /\ after.isKillBrick = before.isKillBrick
    /\ before.movementType = MT_NULL => after = before
    /\ before.movementType = MT_HORIZONTAL => after.y = before.initialY
    /\ before.movementType = MT_VERTICAL => after.x = before.initialX

\* C21: a moving brick is displaced only along its movement axis and its
\* anchor never changes: after every frame of the play loop, and for the
\* prepared bricks of the loaded level placed by getBrickAtTime at the time of
\* that frame, a horizontal mover has y = initialY, a vertical mover has
\* x = initialX, a brick without movement type is unchanged, and initialX,
\* initialY, width, height, angle and isKillBrick are as before.
C21_MoversKeepToTheirAxis ==
    [][clock' # clock =>
          /\ \A k \in 1..Len(gameState.bricks) :
                OnItsAxis(gameState.bricks[k], gameState'.bricks[k])
          /\ \A k \in 1..Len(gameState.bricks) :
                OnItsAxis(PreparedBricksOf(SavedLevel(gameState))[k],
                          getBrickAtTime(PreparedBricksOf(SavedLevel(gameState))[k], clock))]_vars

\* C22: every launch goes upward: a shot that findSolvableShot tries or
\* returns has vy <= MIN_AIM_VY and -AIM_POWER_FACTOR <= vx <= AIM_POWER_FACTOR,
\* and a ball fired in play mode starts with vy <= MIN_AIM_VY.
C22_LaunchesGoUpward ==
    [][/\ pc' = "sim" =>
             /\ LaunchVy(vx') <= MIN_AIM_VY
             /\ -AIM_POWER_FACTOR <= vx'
             /\ vx' <= AIM_POWER_FACTOR
       /\ (results' # results /\ results'[Len(results')].solvable) =>
             /\ results'[Len(results')].shot.vy <= MIN_AIM_VY
             /\ -AIM_POWER_FACTOR <= results'[Len(results')].shot.vx
             /\ results'[Len(results')].shot.vx <= AIM_POWER_FACTOR
       /\ (~gameState.ball.fired /\ gameState'.ball.fired) =>
             gameState'.ball.vy <= MIN_AIM_VY]_vars

\* every brick of the prepared level is static and not lethal
PlainStaticBricks ==
    \A k \in 1..Len(PreparedBricks) :
        ~PreparedBricks[k].isKillBrick /\ PreparedBricks[k].movementType = MT_NULL

\* C23: a fired ball that meets a static non-lethal brick bounces off it
\* exactly once for the encounter (the frame after a bounce does not reflect
\* the ball off the same brick again), and the run then ends in goal reached
\* or wall out: a ball that has been turned downward by a bounce ends its run
\* in no other way.
C23_OneBounceThenGoalOrWall ==
    [][(pc = "sim" /\ frame < opts.maxFrames /\ << pc, frame >>' # << pc, frame >>
            /\ PlainStaticBricks) =>
          /\ (Len(PreparedBricks) = 1 /\ frame > 0 /\ tick.events = <<"bounce">>) =>
                ~(\E k \in 1..Len(tick'.events) : tick'.events[k] = "bounce")
          /\ (ball.vy > 0 /\ tick'.status \in {"fail", "win"}) =>
                tick'.events \in {<<"wall">>, <<"fell">>, <<"goal">>}]_vars

\* C25: exporting the selected level in editor mode first saves the editor
\* state into the level list, and the JSON downloaded is that just-saved
\* version: the bricks, player and hole now on the canvas.
C25_ExportsWhatItSaved ==
    [][ExportSelectedLevel =>
          /\ levels'[gameState.currentLevelIndex + 1] = SavedLevel(gameState)
          /\ downloaded' = { SavedLevel(gameState) }]_vars

\* the step launches the ball
Launches == game.playState # "launched" /\ game'.playState = "launched"

\* C28: a pointer release launches the ball only if the drag that just ended
\* has magnitude at least MIN_LAUNCH_MAGNITUDE: a press followed by a release
\* with no pointer move does not launch and returns playState to 'idle',
\* whatever earlier drags did; presses are ignored while playState is
\* 'launched' or 'success', and attempts grows by exactly one per launch.
C28_ReleaseLaunchesOnlyItsOwnDrag ==
    [][/\ Launches =>
             /\ game.dragMoved
             /\ game.launchMagnitude >= MIN_LAUNCH_MAGNITUDE
             /\ game'.attempts = game.attempts + 1
       /\ (handlePointerUp /\ game.isDragging /\ ~game.dragMoved) =>
             /\ game'.playState = "idle"
             /\ game'.attempts = game.attempts
       /\ handlePointerDown => game.playState \notin { "launched", "success" }
       /\ (game'.attempts # game.attempts /\ ~loadLevel) => Launches]_vars

\* C27: in play mode, releasing the mouse while aiming with the ball on the
\* launcher fires the ball whenever |aim.dx| > 0.01 or |aim.dy| > 0.01 (a
\* straight-up aim included): the ball gets fired = true, onPlayer = false
\* and velocity (aim.dx, aim.dy); otherwise it stays at rest; in both cases
\* aiming is deactivated.
C27_ReleaseFiresAnyAimWithPower ==
    [][MouseUp =>
          /\ ~aim'.active
          /\ IF Abs(aim.dx) * 10 > 1 \/ Abs(aim.dy) * 10 > 1
             THEN /\ gameState'.ball.fired
                  /\ ~gameState'.ball.onPlayer
                  /\ gameState'.ball.vx = aim.dx
                  /\ gameState'.ball.vy = aim.dy
             ELSE gameState'.ball = gameState.ball]_vars

\* the frame completes the level being played
CompletesLevel == clock' # clock /\ BallInFlight(gameState) /\ playTick'.status = "win"

\* C26: completing level i when a next level exists advances the game by
\* exactly one level under every interleaving of further animation frames
\* with the deferred level loads: the completing frame queues a load of level
\* i + 1 and nothing else, every queued load is of the level being played or
\* of the one after it, and a load leaves the game on the level it was
\* queued for with the ball at rest on the launcher; completing the last
\* level switches mode to 'editor' and leaves currentLevelIndex unchanged.
C26_AdvancesByOneLevel ==
    [][/\ (CompletesLevel /\ gameState.currentLevelIndex + 1 < Len(levels)) =>
             /\ pendingLoad' = Append(pendingLoad, gameState.currentLevelIndex + 1)
             /\ gameState'.currentLevelIndex = gameState.currentLevelIndex
       /\ \A k \in 1..Len(pendingLoad') :
             pendingLoad'[k] \in { gameState'.currentLevelIndex, gameState'.currentLevelIndex + 1 }
       /\ LoadTimer =>
             /\ gameState'.currentLevelIndex = Head(pendingLoad)
             /\ AtRest(gameState')
       /\ (CompletesLevel /\ ~(gameState.currentLevelIndex + 1 < Len(levels))) =>
             /\ gameState'.mode = "editor"
             /\ gameState'.currentLevelIndex = gameState.currentLevelIndex
             /\ pendingLoad' = pendingLoad]_vars

\* two frames completed level 0 before the first deferred load ran, and the
\* second load is still to come
C26_Witness ==
    /\ pendingLoad = << 1 >>
    /\ gameState.currentLevelIndex = 1
    /\ playTick = NoPlayTick
    /\ AtRest(gameState)

\* C29: the editor history stays well formed after any sequence of
\* saveHistoryState, undo, redo and reset: its length is at most MAX_HISTORY,
\* historyIndex is -1 exactly when the history is empty and otherwise lies
\* in 0 .. length - 1; a new entry saved discards every entry past
\* historyIndex (and the oldest entry when the history is full).
C29_HistoryWellFormed ==
    [][/\ Len(history') <= MAX_HISTORY
       /\ (historyIndex' = -1) <=> (history' = << >>)
       /\ history' # << >> => (0 <= historyIndex' /\ historyIndex' <= Len(history') - 1)
       /\ (history' # history /\ history' # << >> /\ ~resetEditorSelectionAndHistory) =>
             /\ historyIndex' = Len(history') - 1
             /\ history' \in
                   { Append(SubSeq(history, 1, historyIndex + 1), history'[Len(history')]),
                     Tail(Append(SubSeq(history, 1, historyIndex + 1), history'[Len(history')])) }]_vars

\* the history is full, its oldest entries have been dropped, and an undo
\* has moved the index back from the end
C29_Witness ==
    /\ Len(history) = MAX_HISTORY
    /\ Len(history[1].bricks) = 1
    /\ historyIndex < Len(history) - 1

\* the ball b lies inside the left, right and top walls of an arena of the
\* given width
InsideWalls(b, width) ==
    /\ b.x - b.radius >= 0
    /\ b.x + b.radius <= width
    /\ b.y - b.radius >= 0

\* C30: after every completed step of runGameLoop or simulateShot that leaves
\* the ball in flight, the ball lies inside the left, right and top walls:
\* x - radius >= 0, x + radius <= arena width and y - radius >= 0, including
\* after the push-out of a bounce.
C30_BallInsideWalls ==
    [][/\ (pc = "sim" /\ frame' = frame + 1) => InsideWalls(ball', prepared.width)
       /\ (clock' # clock /\ BallInFlight(gameState) /\ BallInFlight(gameState')) =>
             InsideWalls(gameState'.ball, FALLBACK_CANVAS_WIDTH)]_vars

=============================================================================
